---- MODULE Spec2Model ----
(***************************************************************************)
(* Nomination pools (frame/nomination-pools/src/lib.rs): the bonded pool,  *)
(* the reward pool, the unbonding sub-pools and the delegators, with the   *)
(* staking engine and the balance ledger the pallet calls into.            *)
(*                                                                         *)
(* Every extrinsic is an operator from a storage snapshot and its inputs   *)
(* to a result [res, st, ev]: res is "Ok" or the error, st the storage     *)
(* the call leaves behind (writes made before an early return included),   *)
(* ev the events deposited.  The actions of Next apply these operators.    *)
(***************************************************************************)
EXTENDS Integers, Sequences, FiniteSets, TLC

(***************************************************************************)
(* Bounds of the model                                                     *)
(***************************************************************************)
\* BalanceOf<T>::max_value(), the balance type scaled down to 8 bits
MaxBalance == 255
\* U256::max_value(), RewardPoints scaled down to twice the balance width
MaxRewardPoints == 65535
\* the staking engine's eras run 0..MaxEra
MaxEra == 2
\* largest amount a create or a join bonds
MaxAmount == 2
\* cap on the lifetime earnings of a reward account
MaxEarnings == 2
\* largest slash the staking engine applies in one call
MaxSlash == 2
MaxReward == 4

MaxSlashes == 1
LargeAmount == 20
LargeSlash == 13

(***************************************************************************)
(* Runtime configuration                                                   *)
(***************************************************************************)
\* T::PoolSizeMax
PoolSizeMax == 10
\* T::PostUnbondingPoolsWindow
PostUnbondingPoolsWindow == 1
\* T::StakingInterface::bonding_duration()
bonding_duration == 1
\* T::StakingInterface::minimum_bond()
minimum_bond == 1
\* const POINTS_TO_BALANCE_INIT_RATIO
POINTS_TO_BALANCE_INIT_RATIO == 1

Accounts == {"a1", "a2", "a3"}
Validators == {"v1"}
\* seed indices a create may be called with, and those Next draws from
AllIndices == {0, 1}
Indices == {0}
Eras == 0..MaxEra

Open == "Open"
Blocked == "Blocked"
Destroying == "Destroying"
PoolState == {Open, Blocked, Destroying}

\* Option<T>
None == <<>>
Some(x) == <<x>>
is_some(o) == o # None
is_none(o) == o = None
unwrap(o) == o[1]
unwrap_or(o, d) == IF o = None THEN d ELSE o[1]

(***************************************************************************)
(* Storage maps are partial functions                                      *)
(***************************************************************************)
EmptyMap == [x \in {} |-> 0]
contains_key(m, k) == k \in DOMAIN m
insert(m, k, v) == [x \in (DOMAIN m) \cup {k} |-> IF x = k THEN v ELSE m[x]]
remove(m, k) == [x \in (DOMAIN m) \ {k} |-> m[x]]
get(m, k) == IF k \in DOMAIN m THEN Some(m[k]) ELSE None

Min(a, b) == IF a <= b THEN a ELSE b
Max(a, b) == IF a >= b THEN a ELSE b

RECURSIVE SumOver(_, _)
\* the sum of f[x] over the finite set S
SumOver(f, S) ==
  IF S = {} THEN 0
  ELSE LET x == CHOOSE y \in S : TRUE IN f[x] + SumOver(f, S \ {x})

(***************************************************************************)
(* Saturating arithmetic of the balance type and of RewardPoints           *)
(***************************************************************************)
saturating_add(a, b) == Min(a + b, MaxBalance)
\* a difference that takes nothing away, against which C20 is tried
sub_nothing(a, b) == a
saturating_sub(a, b) == Max(a - b, 0)
\* a product that does not saturate, against which C7 is tried
exact_mul(a, b) == a * b
saturating_mul(a, b) == Min(a * b, MaxBalance)
u256_saturating_add(a, b) == Min(a + b, MaxRewardPoints)
\* a difference that subtracts nothing, against which C13 is tried
u256_no_sub(a, b) == a

u256_saturating_sub(a, b) == Max(a - b, 0)
u256_saturating_mul(a, b) == Min(a * b, MaxRewardPoints)
\* T::BalanceToU256 widens; T::U256ToBalance narrows, clamping at the maximum
BalanceToU256(b) == b
U256ToBalance(n) == Min(n, MaxBalance)

(***************************************************************************)
(* Share arithmetic                                                        *)
(***************************************************************************)
\* an issue of one point for each unit of new funds, whatever the pool holds
points_to_issue_one_to_one(current_balance, current_points, new_funds) == new_funds

points_to_issue(current_balance, current_points, new_funds) ==
  IF current_points = 0
    THEN saturating_mul(new_funds, POINTS_TO_BALANCE_INIT_RATIO)
  ELSE IF current_balance = 0
    THEN saturating_mul(new_funds, current_points)
  ELSE saturating_mul(current_points, new_funds) \div current_balance

balance_to_unbond(current_balance, current_points, delegator_points) ==
  IF current_balance = 0 \/ current_points = 0 \/ delegator_points = 0
    THEN 0
  ELSE saturating_mul(current_balance, delegator_points) \div current_points

(***************************************************************************)
(* State                                                                   *)
(***************************************************************************)
VARIABLES
  Delegators,       \* account -> [pool, points, reward_pool_total_earnings, unbonding_era]
  BondedPools,      \* pool account -> [points, depositor, root, nominator, state_toggler, state]
  RewardPools,      \* pool account -> [account, balance, total_earnings, points]
  SubPoolsStorage,  \* pool account -> [no_era, with_era]
  MinJoinBond,      \* StorageValue, set at genesis
  MinCreateBond,    \* StorageValue, set at genesis
  MaxPools,         \* StorageValue, Option<u32>, set at genesis
  Ledger,           \* staking: stash -> [active, unlocking (era of the unbond -> balance), nominations]
  FreeBalance,      \* balances: free balance of the pool and reward accounts
  CurrentEra,       \* staking: current era
  UsedSeeds,        \* frame_system: the account seeds a create has consumed
  Slashes           \* staking: the number of slashes applied so far

vars == <<Delegators, BondedPools, RewardPools, SubPoolsStorage, MinJoinBond,
          MinCreateBond, MaxPools, Ledger, FreeBalance, CurrentEra, UsedSeeds,
          Slashes>>

\* the storage snapshot an extrinsic runs against
Storage ==
  [Delegators |-> Delegators, BondedPools |-> BondedPools,
   RewardPools |-> RewardPools, SubPoolsStorage |-> SubPoolsStorage,
   MinJoinBond |-> MinJoinBond, MinCreateBond |-> MinCreateBond,
   MaxPools |-> MaxPools, Ledger |-> Ledger, FreeBalance |-> FreeBalance,
   CurrentEra |-> CurrentEra]

\* the storage becomes st
Commit(st) ==
  /\ Delegators' = st.Delegators
  /\ BondedPools' = st.BondedPools
  /\ RewardPools' = st.RewardPools
  /\ SubPoolsStorage' = st.SubPoolsStorage
  /\ MinJoinBond' = st.MinJoinBond
  /\ MinCreateBond' = st.MinCreateBond
  /\ MaxPools' = st.MaxPools
  /\ Ledger' = st.Ledger
  /\ FreeBalance' = st.FreeBalance
  /\ CurrentEra' = st.CurrentEra

\* DispatchResult: Ok(()) with the storage written, or Err(e) after an early return
Ok(st, ev) == [res |-> "Ok", st |-> st, ev |-> ev]
Err(st, e) == [res |-> e, st |-> st, ev |-> <<>>]

\* #[frame_support::transactional]: an Err rolls every write back
transactional(st, r) == IF r.res = "Ok" THEN r ELSE Err(st, r.res)

\* Pallet::create_accounts: the stash and the reward account of a seed index
create_accounts(index) ==
  [pool |-> <<"pools/stash", index>>, reward |-> <<"pools/rewards", index>>]

PoolAccounts == {create_accounts(i).pool : i \in AllIndices}
RewardAccounts == {create_accounts(i).reward : i \in AllIndices}

(***************************************************************************)
(* The staking engine (StakingInterface) and the balance ledger (Currency) *)
(***************************************************************************)
\* a staking call succeeds when the engine accepts it (staking_ok) and the
\* stash has a ledger
staking_call_ok(st, stash, staking_ok) == staking_ok /\ stash \in DOMAIN st.Ledger


staking_current_era(st) == Some(st.CurrentEra)

bonded_balance(st, stash) ==
  IF stash \in DOMAIN st.Ledger THEN Some(st.Ledger[stash].active) ELSE None

free_balance(st, who) == st.FreeBalance[who]

\* Currency::transfer into a pool account from a user account (users' own
\* balances are outside the model: funded says whether the user can pay)
deposit(st, to, amount) ==
  [st EXCEPT !.FreeBalance[to] = @ + amount]

\* a transfer that moves nothing
withdraw_nothing(st, from, amount) == st

\* Currency::transfer out of a pool or reward account to a user
withdraw(st, from, amount) ==
  [st EXCEPT !.FreeBalance[from] = @ - amount]

\* the staking engine locks the ledger's total (active and unlocking) in the
\* stash's free balance; a transfer may not take the balance below the lock
locked(st, who) ==
  IF who \in DOMAIN st.Ledger
    THEN st.Ledger[who].active
           + SumOver(st.Ledger[who].unlocking, DOMAIN st.Ledger[who].unlocking)
    ELSE 0

transfer_ok(st, from, amount) ==
  free_balance(st, from) >= amount /\ free_balance(st, from) - amount >= locked(st, from)

make_free_balance_be(st, who, amount) ==
  [st EXCEPT !.FreeBalance[who] = amount]

\* StakingInterface::bond
staking_bond(st, stash, amount) ==
  [st EXCEPT !.Ledger = insert(@, stash,
     [active |-> amount, unlocking |-> EmptyMap, nominations |-> <<>>])]

\* StakingInterface::bond_extra
staking_bond_extra(st, stash, amount) ==
  [st EXCEPT !.Ledger[stash].active = @ + amount]

\* StakingInterface::unbond: amount leaves the active stake and unlocks
staking_unbond(st, stash, amount) ==
  LET l == st.Ledger[stash]
      v == Min(amount, l.active)
      e == st.CurrentEra
      chunk == IF e \in DOMAIN l.unlocking THEN l.unlocking[e] ELSE 0
  IN IF v = 0 THEN st
     ELSE [st EXCEPT !.Ledger[stash] =
             [l EXCEPT !.active = @ - v, !.unlocking = insert(@, e, chunk + v)]]

\* StakingInterface::withdraw_unbonded: chunks past the bonding duration are
\* released
staking_withdraw_unbonded(st, stash) ==
  LET l == st.Ledger[stash]
      keep == {e \in DOMAIN l.unlocking : e + bonding_duration > st.CurrentEra}
  IN [st EXCEPT !.Ledger[stash].unlocking = [e \in keep |-> l.unlocking[e]]]

\* StakingInterface::nominate
staking_nominate(st, stash, validators) ==
  [st EXCEPT !.Ledger[stash].nominations = validators]

(***************************************************************************)
(* BondedPool                                                              *)
(***************************************************************************)
BondedPool_get(st, pool_account) == get(st.BondedPools, pool_account)

BondedPool_put(st, pool_account, bonded_pool) ==
  [st EXCEPT !.BondedPools = insert(@, pool_account, bonded_pool)]

BondedPool_remove(st, pool_account) ==
  [st EXCEPT !.BondedPools = remove(@, pool_account)]

BondedPool_points_to_issue(st, pool_account, bonded_pool, new_funds) ==
  points_to_issue(unwrap_or(bonded_balance(st, pool_account), 0),
                  bonded_pool.points, new_funds)

BondedPool_balance_to_unbond(st, pool_account, bonded_pool, delegator_points) ==
  balance_to_unbond(unwrap_or(bonded_balance(st, pool_account), 0),
                    bonded_pool.points, delegator_points)

\* an issue that hands out points without adding them to the pool, against
\* which C1 is tried
issue_without_points(st, pool_account, bonded_pool, new_funds) ==
  [pool |-> bonded_pool,
   issued |-> BondedPool_points_to_issue(st, pool_account, bonded_pool, new_funds)]

\* BondedPool::issue: the pool with the new points, and the points issued
BondedPool_issue(st, pool_account, bonded_pool, new_funds) ==
  LET issued == BondedPool_points_to_issue(st, pool_account, bonded_pool, new_funds)
  IN [pool |-> [bonded_pool EXCEPT !.points = saturating_add(@, issued)],
      issued |-> issued]

\* BondedPool::ok_to_join_with: "Ok" or the error
\* a precheck that accepts every join, against which C21 is tried
ok_to_join_with_anything(st, pool_account, bonded_pool, new_funds) == "Ok"

ok_to_join_with(st, pool_account, bonded_pool, new_funds) ==
  LET bonded == unwrap_or(bonded_balance(st, pool_account), 0)
  IN IF bonded_pool.state # Open THEN "NotOpen"
     ELSE IF bonded = 0 THEN "OverflowRisk"
     ELSE IF ~((bonded_pool.points \div bonded) < PoolSizeMax) THEN "OverflowRisk"
     ELSE IF ~(saturating_add(new_funds, bonded) < (MaxBalance \div PoolSizeMax))
       THEN "OverflowRisk"
     ELSE "Ok"

\* a permission to nominate that everyone has, against which C24 is tried
can_nominate_anyone(bonded_pool, who) == TRUE

can_nominate(bonded_pool, who) ==
  who = bonded_pool.root \/ who = bonded_pool.nominator

\* a kick permission that ignores the pool state, against which C9 is tried
can_kick_any_state(bonded_pool, who) ==
  who = bonded_pool.root \/ who = bonded_pool.state_toggler

can_kick(bonded_pool, who) ==
  (who = bonded_pool.root \/ who = bonded_pool.state_toggler)
    /\ bonded_pool.state = Blocked

\* a pool that never counts as destroying, against which C10 is tried
never_destroying(bonded_pool) == FALSE

is_destroying(bonded_pool) == bonded_pool.state = Destroying

\* BondedPool::ok_to_unbond_other_with: "Ok" or the error
ok_to_unbond_other_with(bonded_pool, caller, target_account, target_delegator) ==
  LET is_permissioned == caller = target_account
      is_depositor == target_account = bonded_pool.depositor
  IN IF ~is_permissioned /\ ~is_depositor
       THEN IF can_kick(bonded_pool, caller) \/ is_destroying(bonded_pool)
              THEN "Ok" ELSE "NotKickerOrDestroying"
     ELSE IF is_permissioned /\ ~is_depositor THEN "Ok"
     ELSE IF target_delegator.points # bonded_pool.points THEN "NotOnlyDelegator"
     ELSE IF ~is_destroying(bonded_pool) THEN "NotDestroying"
     ELSE "Ok"

\* BondedPool::ok_to_withdraw_unbonded_other_with: [res, should_remove_pool]
ok_to_withdraw_unbonded_other_with(bonded_pool, caller, target_account, target_delegator, sub_pools) ==
  IF target_account = bonded_pool.depositor
    THEN IF sub_pools.no_era.points # 0
           THEN IF Cardinality(DOMAIN sub_pools.with_era) # 0
                  THEN [res |-> "NotOnlyDelegator", remove |-> FALSE]
                ELSE IF sub_pools.no_era.points # target_delegator.points
                  THEN [res |-> "NotOnlyDelegator", remove |-> FALSE]
                ELSE [res |-> "Ok", remove |-> TRUE]
         ELSE IF Cardinality(DOMAIN sub_pools.with_era) # 1
           THEN [res |-> "NotOnlyDelegator", remove |-> FALSE]
         ELSE LET only == CHOOSE e \in DOMAIN sub_pools.with_era : TRUE
              IN IF sub_pools.with_era[only].points = target_delegator.points
                   THEN [res |-> "Ok", remove |-> TRUE]
                   ELSE [res |-> "NotOnlyDelegator", remove |-> FALSE]
  ELSE IF caller = target_account \/ can_kick(bonded_pool, caller)
            \/ is_destroying(bonded_pool)
    THEN [res |-> "Ok", remove |-> FALSE]
  ELSE [res |-> "NotKickerOrDestroying", remove |-> FALSE]

(***************************************************************************)
(* RewardPool                                                              *)
(***************************************************************************)
\* an update that reads nothing from the account, against which C17 is tried
update_nothing(st, reward_pool) == reward_pool

\* an update that counts the whole balance of the account as new earnings,
\* against which C15 is tried
update_counting_balance_twice(st, reward_pool) ==
  LET current_balance == free_balance(st, reward_pool.account)
  IN [reward_pool EXCEPT
        !.total_earnings = saturating_add(current_balance, reward_pool.total_earnings),
        !.balance = current_balance]

update_total_earnings_and_balance(st, reward_pool) ==
  LET current_balance == free_balance(st, reward_pool.account)
      new_earnings == saturating_sub(current_balance, reward_pool.balance)
  IN [reward_pool EXCEPT
        !.total_earnings = saturating_add(new_earnings, reward_pool.total_earnings),
        !.balance = current_balance]

(***************************************************************************)
(* UnbondPool and SubPools                                                 *)
(***************************************************************************)
UnbondPool_default == [points |-> 0, balance |-> 0]
SubPools_default == [no_era |-> UnbondPool_default, with_era |-> EmptyMap]

UnbondPool_points_to_issue(pool, new_funds) ==
  points_to_issue(pool.balance, pool.points, new_funds)

UnbondPool_balance_to_unbond(pool, delegator_points) ==
  balance_to_unbond(pool.balance, pool.points, delegator_points)

UnbondPool_issue(pool, new_funds) ==
  [points |-> saturating_add(pool.points, UnbondPool_points_to_issue(pool, new_funds)),
   balance |-> saturating_add(pool.balance, new_funds)]

TotalUnbondingPools == bonding_duration + PostUnbondingPoolsWindow

\* sub-pools that are never merged, against which C4 is tried
never_merge_pools(sub_pools, current_era) == sub_pools

maybe_merge_pools(sub_pools, current_era) ==
  IF current_era < TotalUnbondingPools THEN sub_pools
  ELSE LET newest_era_to_remove == saturating_sub(current_era, TotalUnbondingPools)
           eras_to_remove == {era \in DOMAIN sub_pools.with_era : era <= newest_era_to_remove}
       IN [no_era |->
             [points |-> Min(sub_pools.no_era.points
                              + SumOver([e \in eras_to_remove |-> sub_pools.with_era[e].points],
                                        eras_to_remove), MaxBalance),
              balance |-> Min(sub_pools.no_era.balance
                               + SumOver([e \in eras_to_remove |-> sub_pools.with_era[e].balance],
                                         eras_to_remove), MaxBalance)],
           with_era |-> [e \in (DOMAIN sub_pools.with_era) \ eras_to_remove
                           |-> sub_pools.with_era[e]]]

\* BoundedBTreeMap::try_insert: refused when the map is full
try_insert_fails(with_era, era) ==
  ~contains_key(with_era, era) /\ Cardinality(DOMAIN with_era) >= TotalUnbondingPools

\* SubPools::unchecked_with_era_get_or_make(era).issue(new_funds); the caller
\* has excluded try_insert_fails, where the expect panics
unchecked_with_era_get_or_make_issue(sub_pools, era, new_funds) ==
  LET pool == IF contains_key(sub_pools.with_era, era)
                THEN sub_pools.with_era[era] ELSE UnbondPool_default
  IN [sub_pools EXCEPT !.with_era = insert(@, era, UnbondPool_issue(pool, new_funds))]

(***************************************************************************)
(* Reward payout                                                           *)
(***************************************************************************)
\* Pallet::calculate_delegator_payout: [res, reward_pool, delegator, payout]
calculate_delegator_payout(st, bonded_pool, reward_pool_in, delegator_in) ==
  IF ~is_none(delegator_in.unbonding_era)
    THEN [res |-> "AlreadyUnbonding", reward_pool |-> reward_pool_in,
          delegator |-> delegator_in, payout |-> 0]
  ELSE
    LET last_total_earnings == reward_pool_in.total_earnings
        reward_pool == update_total_earnings_and_balance(st, reward_pool_in)
        new_earnings ==
          BalanceToU256(saturating_sub(reward_pool.total_earnings, last_total_earnings))
        new_points == u256_saturating_mul(BalanceToU256(bonded_pool.points), new_earnings)
        current_points == u256_saturating_add(reward_pool.points, new_points)
        new_earnings_since_last_claim ==
          saturating_sub(reward_pool.total_earnings, delegator_in.reward_pool_total_earnings)
        delegator_virtual_points ==
          u256_saturating_mul(BalanceToU256(delegator_in.points),
                              BalanceToU256(new_earnings_since_last_claim))
        delegator_payout ==
          IF delegator_virtual_points = 0 \/ current_points = 0 \/ reward_pool.balance = 0
            THEN 0
          ELSE U256ToBalance(
                 u256_saturating_mul(delegator_virtual_points,
                                     BalanceToU256(reward_pool.balance))
                   \div current_points)
    IN [res |-> "Ok",
        reward_pool |->
          [reward_pool EXCEPT
             !.points = u256_saturating_sub(current_points, delegator_virtual_points),
             !.balance = saturating_sub(reward_pool.balance, delegator_payout)],
        delegator |->
          [delegator_in EXCEPT !.reward_pool_total_earnings = reward_pool.total_earnings],
        payout |-> delegator_payout]

\* a payout that pays and records nothing
do_reward_payout_nothing(st, delegator_id, delegator, bonded_pool) ==
  Ok(st, <<[event |-> "PaidOut", delegator |-> delegator_id,
            pool |-> delegator.pool, amount |-> 0]>>)

\* Pallet::do_reward_payout (with transfer_reward)
do_reward_payout(st, delegator_id, delegator, bonded_pool) ==
  IF ~contains_key(st.RewardPools, delegator.pool) THEN Err(st, "RewardPoolNotFound")
  ELSE
    LET c == calculate_delegator_payout(st, bonded_pool,
                                        st.RewardPools[delegator.pool], delegator)
    IN IF c.res # "Ok" THEN Err(st, c.res)
       ELSE IF free_balance(st, c.reward_pool.account) < c.payout
         THEN Err(st, "InsufficientBalance")
       ELSE
         LET st1 == withdraw(st, c.reward_pool.account, c.payout)
             st2 == [st1 EXCEPT
                       !.RewardPools = insert(@, c.delegator.pool, c.reward_pool),
                       !.Delegators = insert(@, delegator_id, c.delegator)]
         IN Ok(st2, <<[event |-> "PaidOut", delegator |-> delegator_id,
                       pool |-> c.delegator.pool, amount |-> c.payout]>>)

(***************************************************************************)
(* Extrinsics                                                              *)
(***************************************************************************)
join_inner(st, who, amount, pool_account, funded, staking_ok) ==
  IF ~(amount >= st.MinJoinBond) THEN Err(st, "MinimumBondNotMet")
  ELSE IF contains_key(st.Delegators, who) THEN Err(st, "AccountBelongsToOtherPool")
  ELSE IF ~contains_key(st.BondedPools, pool_account) THEN Err(st, "PoolNotFound")
  ELSE
    LET bonded_pool == st.BondedPools[pool_account]
        ok == ok_to_join_with(st, pool_account, bonded_pool, amount)
    IN IF ok # "Ok" THEN Err(st, ok)
       ELSE IF ~contains_key(st.RewardPools, pool_account)
         THEN Err(st, "RewardPoolNotFound")
       ELSE
         LET reward_pool ==
               update_total_earnings_and_balance(st, st.RewardPools[pool_account])
         IN IF ~funded THEN Err(st, "InsufficientBalance")
            ELSE
              LET st1 == deposit(st, pool_account, amount)
                  iss == BondedPool_issue(st1, pool_account, bonded_pool, amount)
              IN IF ~staking_call_ok(st1, pool_account, staking_ok)
                   THEN Err(st1, "StakingError")
                 ELSE
                   LET st2 == staking_bond_extra(st1, pool_account, amount)
                       st3 == [st2 EXCEPT !.Delegators = insert(@, who,
                                 [pool |-> pool_account,
                                  points |-> iss.issued,
                                  reward_pool_total_earnings |-> reward_pool.total_earnings,
                                  unbonding_era |-> None])]
                       st4 == BondedPool_put(st3, pool_account, iss.pool)
                   IN Ok(st4, <<[event |-> "Joined", delegator |-> who,
                                 pool |-> pool_account, amount |-> amount]>>)

\* a join that does not see the caller's delegator record, against which C12
\* is tried
join_over_record(st, who, amount, pool_account, funded, staking_ok) ==
  LET hidden == [st EXCEPT !.Delegators = remove(@, who)]
      r == join_inner(hidden, who, amount, pool_account, funded, staking_ok)
  IN IF r.res = "Ok" THEN r ELSE Err(st, r.res)

join(st, who, amount, pool_account, funded, staking_ok) ==
  transactional(st, join_inner(st, who, amount, pool_account, funded, staking_ok))

\* a claim that takes its delegator for a bonded one, against which C18 is
\* tried
claim_payout_as_bonded(st, who) ==
  IF ~contains_key(st.Delegators, who) THEN Err(st, "DelegatorNotFound")
  ELSE IF ~contains_key(st.BondedPools, st.Delegators[who].pool)
    THEN Err(st, "PoolNotFound")
  ELSE do_reward_payout(st, who, [st.Delegators[who] EXCEPT !.unbonding_era = None],
                        st.BondedPools[st.Delegators[who].pool])

claim_payout(st, who) ==
  IF ~contains_key(st.Delegators, who) THEN Err(st, "DelegatorNotFound")
  ELSE
    LET delegator == st.Delegators[who]
    IN IF ~contains_key(st.BondedPools, delegator.pool) THEN Err(st, "PoolNotFound")
       ELSE do_reward_payout(st, who, delegator, st.BondedPools[delegator.pool])

unbond_other(st, caller, target, staking_ok) ==
  IF ~contains_key(st.Delegators, target) THEN Err(st, "DelegatorNotFound")
  ELSE IF ~contains_key(st.BondedPools, st.Delegators[target].pool)
    THEN Err(st, "PoolNotFound")
  ELSE
    LET delegator0 == st.Delegators[target]
        pool_account == delegator0.pool
        bonded_pool == st.BondedPools[pool_account]
        perm == ok_to_unbond_other_with(bonded_pool, caller, target, delegator0)
        pay == do_reward_payout(st, target, delegator0, bonded_pool)
    IN IF perm # "Ok" THEN Err(st, perm)
       ELSE IF pay.res # "Ok" THEN pay
       ELSE
         LET st1 == pay.st
             delegator == st1.Delegators[target]
             sub_pools == unwrap_or(get(st1.SubPoolsStorage, pool_account), SubPools_default)
             era == unwrap_or(staking_current_era(st1), 0)
             amount == BondedPool_balance_to_unbond(st1, pool_account, bonded_pool,
                                                    delegator.points)
             bonded_pool1 ==
               [bonded_pool EXCEPT !.points = saturating_sub(@, delegator.points)]
             merged == maybe_merge_pools(sub_pools, era)
         IN IF ~staking_call_ok(st1, pool_account, staking_ok)
              THEN Err(st1, "StakingError")
            ELSE IF try_insert_fails(merged.with_era, era) THEN Err(st, "Panic")
            ELSE
              LET st2 == staking_unbond(st1, pool_account, amount)
                  sub_pools1 == unchecked_with_era_get_or_make_issue(merged, era, amount)
                  st3 == BondedPool_put(st2, pool_account, bonded_pool1)
                  st4 == [st3 EXCEPT
                            !.SubPoolsStorage = insert(@, pool_account, sub_pools1),
                            !.Delegators = insert(@, target,
                               [delegator EXCEPT !.unbonding_era = Some(era)])]
              IN Ok(st4, pay.ev \o <<[event |-> "Unbonded", delegator |-> target,
                                      pool |-> pool_account, amount |-> amount]>>)

pool_withdraw_unbonded(st, pool_account, staking_ok) ==
  IF ~staking_call_ok(st, pool_account, staking_ok) THEN Err(st, "StakingError")
  ELSE Ok(staking_withdraw_unbonded(st, pool_account), <<>>)

\* the sub-pool a withdrawing delegator redeems from: [sub_pools, amount]
withdraw_from_sub_pools(sub_pools, unbonding_era, delegator_points) ==
  IF contains_key(sub_pools.with_era, unbonding_era)
    THEN
      LET pool == sub_pools.with_era[unbonding_era]
          amount == UnbondPool_balance_to_unbond(pool, delegator_points)
          pool1 == [points |-> saturating_sub(pool.points, delegator_points),
                    balance |-> saturating_sub(pool.balance, amount)]
      IN [sub_pools |->
            [sub_pools EXCEPT !.with_era =
               IF pool1.points = 0 THEN remove(@, unbonding_era)
               ELSE insert(@, unbonding_era, pool1)],
          amount |-> amount]
  ELSE
    LET amount == UnbondPool_balance_to_unbond(sub_pools.no_era, delegator_points)
    IN [sub_pools |->
          [sub_pools EXCEPT
             !.no_era.points = saturating_sub(@, delegator_points),
             !.no_era.balance = saturating_sub(@, amount)],
        amount |-> amount]

withdraw_unbonded_other(st, caller, target, staking_ok) ==
  IF ~contains_key(st.Delegators, target) THEN Err(st, "DelegatorNotFound")
  ELSE IF is_none(st.Delegators[target].unbonding_era) THEN Err(st, "NotUnbonding")
  ELSE
    LET delegator == st.Delegators[target]
        pool_account == delegator.pool
        unbonding_era == unwrap(delegator.unbonding_era)
        era == unwrap_or(staking_current_era(st), 0)
    IN IF ~(saturating_sub(era, unbonding_era) >= bonding_duration)
         THEN Err(st, "NotUnbondedYet")
       ELSE IF ~contains_key(st.SubPoolsStorage, pool_account)
         THEN Err(st, "SubPoolsNotFound")
       ELSE IF ~contains_key(st.BondedPools, pool_account) THEN Err(st, "PoolNotFound")
       ELSE
         LET bonded_pool == st.BondedPools[pool_account]
             perm == ok_to_withdraw_unbonded_other_with(
                       bonded_pool, caller, target, delegator,
                       st.SubPoolsStorage[pool_account])
             w == withdraw_from_sub_pools(st.SubPoolsStorage[pool_account],
                                          unbonding_era, delegator.points)
         IN IF perm.res # "Ok" THEN Err(st, perm.res)
            ELSE IF ~staking_call_ok(st, pool_account, staking_ok)
              THEN Err(st, "StakingError")
            ELSE
              LET st1 == staking_withdraw_unbonded(st, pool_account)
                  paid == free_balance(st1, pool_account) >= w.amount
                  st2 == IF paid THEN withdraw(st1, pool_account, w.amount) ELSE st1
                  ev == IF paid
                          THEN <<[event |-> "Withdrawn", delegator |-> target,
                                  pool |-> pool_account, amount |-> w.amount]>>
                          ELSE <<[event |-> "DustWithdrawn", delegator |-> target,
                                  pool |-> pool_account, amount |-> 0]>>
              IN IF paid /\ ~transfer_ok(st1, pool_account, w.amount)
                   THEN Err(st1, "LiquidityRestrictions")
                 ELSE IF perm.remove
                   THEN IF ~contains_key(st2.RewardPools, pool_account)
                          THEN Err(st2, "PoolNotFound")
                        ELSE
                          LET reward_account == st2.RewardPools[pool_account].account
                              st3 == [st2 EXCEPT
                                        !.RewardPools = remove(@, pool_account),
                                        !.SubPoolsStorage = remove(@, pool_account)]
                              st4 == make_free_balance_be(st3, reward_account, 0)
                              st5 == make_free_balance_be(st4, pool_account, 0)
                              st6 == BondedPool_remove(st5, pool_account)
                          IN Ok([st6 EXCEPT !.Delegators = remove(@, target)], ev)
                   ELSE Ok([st2 EXCEPT
                              !.SubPoolsStorage = insert(@, pool_account, w.sub_pools),
                              !.Delegators = remove(@, target)], ev)

create_inner(st, who, amount, index, root, nominator, state_toggler, funded, staking_ok) ==
  IF ~(amount >= minimum_bond /\ amount >= st.MinCreateBond)
    THEN Err(st, "MinimumBondNotMet")
  ELSE IF is_some(st.MaxPools)
            /\ ~(Cardinality(DOMAIN st.BondedPools) < unwrap(st.MaxPools))
    THEN Err(st, "MaxPools")
  ELSE IF contains_key(st.Delegators, who) THEN Err(st, "AccountBelongsToOtherPool")
  ELSE IF contains_key(st.BondedPools, create_accounts(index).pool)
    THEN Err(st, "IdInUse")
  ELSE
    LET pool_account == create_accounts(index).pool
        reward_account == create_accounts(index).reward
        bonded_pool0 == [points |-> 0, depositor |-> who, root |-> root,
                         nominator |-> nominator, state_toggler |-> state_toggler,
                         state |-> Open]
        iss == BondedPool_issue(st, pool_account, bonded_pool0, amount)
    IN IF ~funded THEN Err(st, "InsufficientBalance")
       ELSE
         LET st1 == deposit(st, pool_account, amount)
         IN IF ~staking_ok \/ pool_account \in DOMAIN st1.Ledger
              THEN Err(st1, "StakingError")
            ELSE
              LET st2 == staking_bond(st1, pool_account, amount)
                  st3 == [st2 EXCEPT !.Delegators = insert(@, who,
                            [pool |-> pool_account,
                             points |-> iss.issued,
                             reward_pool_total_earnings |-> 0,
                             unbonding_era |-> None])]
                  st4 == BondedPool_put(st3, pool_account, iss.pool)
                  st5 == [st4 EXCEPT !.RewardPools = insert(@, pool_account,
                            [account |-> reward_account, balance |-> 0,
                             total_earnings |-> 0, points |-> 0])]
              IN Ok(st5, <<>>)

\* a create that does not see the configured MinCreateBond and MaxPools,
\* against which C23 is tried
create_without_limits(st, who, amount, index, root, nominator, state_toggler, funded, staking_ok) ==
  LET open == [st EXCEPT !.MinCreateBond = 0, !.MaxPools = None]
      r == create_inner(open, who, amount, index, root, nominator, state_toggler,
                        funded, staking_ok)
  IN IF r.res = "Ok"
       THEN [r EXCEPT !.st.MinCreateBond = st.MinCreateBond, !.st.MaxPools = st.MaxPools]
     ELSE Err(st, r.res)

create(st, who, amount, index, root, nominator, state_toggler, funded, staking_ok) ==
  transactional(st, create_inner(st, who, amount, index, root, nominator, state_toggler, funded, staking_ok))

nominate(st, who, pool_account, validators, staking_ok) ==
  IF ~contains_key(st.BondedPools, pool_account) THEN Err(st, "PoolNotFound")
  ELSE IF ~can_nominate(st.BondedPools[pool_account], who) THEN Err(st, "NotNominator")
  ELSE IF ~staking_call_ok(st, pool_account, staking_ok) THEN Err(st, "StakingError")
  ELSE Ok(staking_nominate(st, pool_account, validators), <<>>)

\* a state change that anyone may make and that leaves Destroying, against
\* which C11 is tried
set_state_by_anyone(st, who, pool_account, state) ==
  IF ~contains_key(st.BondedPools, pool_account) THEN Err(st, "PoolNotFound")
  ELSE Ok(BondedPool_put(st, pool_account,
            [st.BondedPools[pool_account] EXCEPT !.state = state]), <<>>)

\* the pool's state is set by its root or state-toggler; Destroying is final
set_state(st, who, pool_account, state) ==
  IF ~contains_key(st.BondedPools, pool_account) THEN Err(st, "PoolNotFound")
  ELSE LET bonded_pool == st.BondedPools[pool_account]
       IN IF is_destroying(bonded_pool) THEN Err(st, "CanNotChangeState")
          ELSE IF ~(who = bonded_pool.root \/ who = bonded_pool.state_toggler)
            THEN Err(st, "CanNotChangeState")
          ELSE Ok(BondedPool_put(st, pool_account, [bonded_pool EXCEPT !.state = state]),
                  <<>>)

(***************************************************************************)
(* Slashing                                                                *)
(***************************************************************************)
\* a slash that cuts every sub-pool, no_era included, whatever the eras,
\* against which C8 is tried
do_slash_every_sub_pool(st, pool_stash, slash_amount, slash_era, apply_era, active_bonded) ==
  IF ~contains_key(st.BondedPools, pool_stash) THEN [out |-> None, st |-> st]
  ELSE
    LET sub_pools == unwrap_or(get(st.SubPoolsStorage, pool_stash), SubPools_default)
        cut(pool) == [pool EXCEPT !.balance = saturating_sub(@, slash_amount)]
    IN [out |-> Some([slashed_bonded |-> saturating_sub(active_bonded, slash_amount),
                      slashed_unlocking |->
                        [era \in DOMAIN sub_pools.with_era |->
                           cut(sub_pools.with_era[era]).balance]]),
        st |-> [st EXCEPT !.SubPoolsStorage = insert(@, pool_stash,
                  [no_era |-> cut(sub_pools.no_era),
                   with_era |-> [era \in DOMAIN sub_pools.with_era |->
                                   cut(sub_pools.with_era[era])]])]]

\* a slash that does not ask whether pool_stash is a pool
do_slash_any_account(st, pool_stash, slash_amount, slash_era, apply_era, active_bonded) ==
  LET as_pool == [st EXCEPT !.BondedPools = insert(@, pool_stash, None)]
      r == do_slash_every_sub_pool(as_pool, pool_stash, slash_amount, slash_era,
                                   apply_era, active_bonded)
  IN [out |-> r.out, st |-> [r.st EXCEPT !.BondedPools = st.BondedPools]]

\* Pallet::do_slash: [out, st], out the Option<SlashPoolOut> returned
do_slash(st, pool_stash, slash_amount, slash_era, apply_era, active_bonded) ==
  IF ~contains_key(st.BondedPools, pool_stash) THEN [out |-> None, st |-> st]
  ELSE
    LET sub_pools == unwrap_or(get(st.SubPoolsStorage, pool_stash), SubPools_default)
        affected_range == (slash_era + 1)..apply_era
        affected == {era \in affected_range : contains_key(sub_pools.with_era, era)}
        unbonding_affected_balance ==
          Min(SumOver([era \in affected |-> sub_pools.with_era[era].balance], affected),
              MaxBalance)
        total_affected_balance == saturating_add(active_bonded, unbonding_affected_balance)
    IN IF total_affected_balance = 0
         THEN [out |-> Some([slashed_bonded |-> 0, slashed_unlocking |-> EmptyMap]),
               st |-> st]
       ELSE
         LET slashed_unlocking ==
               [era \in affected |->
                  saturating_sub(sub_pools.with_era[era].balance,
                    saturating_mul(slash_amount, sub_pools.with_era[era].balance)
                      \div total_affected_balance)]
             with_era1 ==
               [era \in DOMAIN sub_pools.with_era |->
                  IF era \in affected
                    THEN [points |-> sub_pools.with_era[era].points,
                          balance |-> slashed_unlocking[era]]
                    ELSE sub_pools.with_era[era]]
             slashed_bonded ==
               saturating_sub(active_bonded,
                 saturating_mul(slash_amount, active_bonded) \div total_affected_balance)
         IN [out |-> Some([slashed_bonded |-> slashed_bonded,
                           slashed_unlocking |-> slashed_unlocking]),
             st |-> [st EXCEPT !.SubPoolsStorage = insert(@, pool_stash,
                       [no_era |-> sub_pools.no_era, with_era |-> with_era1])]]

\* the staking engine applies the balances slash_pool returned to the stash's
\* ledger and burns the difference from the stash's free balance
staking_apply_slash(st, stash, out) ==
  LET l == st.Ledger[stash]
      active1 == Min(l.active, out.slashed_bonded)
      unlocking1 ==
        [e \in DOMAIN l.unlocking |->
           IF e \in DOMAIN out.slashed_unlocking
             THEN Min(l.unlocking[e], out.slashed_unlocking[e])
             ELSE l.unlocking[e]]
      burned == (l.active - active1)
                  + SumOver([e \in DOMAIN l.unlocking |-> l.unlocking[e] - unlocking1[e]],
                            DOMAIN l.unlocking)
  IN [st EXCEPT !.Ledger[stash].active = active1,
                !.Ledger[stash].unlocking = unlocking1,
                !.FreeBalance[stash] = saturating_sub(@, burned)]

\* PoolsInterface::slash_pool as the staking engine calls it when it slashes
\* stash at the current era
slash_pool(st, pool_stash, slash_amount, slash_era) ==
  LET r == do_slash(st, pool_stash, slash_amount, slash_era, st.CurrentEra,
                    unwrap_or(bonded_balance(st, pool_stash), 0))
  IN IF is_none(r.out) THEN r
     ELSE [out |-> r.out, st |-> staking_apply_slash(r.st, pool_stash, unwrap(r.out))]

(***************************************************************************)
(* Specification                                                           *)
(***************************************************************************)
\* GenesisConfig::default and empty storage
Init ==
  /\ Delegators = EmptyMap
  /\ BondedPools = EmptyMap
  /\ RewardPools = EmptyMap
  /\ SubPoolsStorage = EmptyMap
  /\ MinJoinBond = 0
  /\ MinCreateBond = 0
  /\ MaxPools = Some(PoolSizeMax)
  /\ Ledger = EmptyMap
  /\ FreeBalance = [a \in PoolAccounts \cup RewardAccounts |-> 0]
  /\ CurrentEra = 0
  /\ UsedSeeds = {}
  /\ Slashes = 0

\* the role accounts a create names
Roots == {"a1"}
Nominators == {"a3"}
StateTogglers == {"a2"}

\* a seed is drawn once; it can come again only while its pool is alive
Create(who, amount, index, root, nominator, state_toggler, funded, staking_ok) ==
  /\ index \notin UsedSeeds \/ contains_key(BondedPools, create_accounts(index).pool)
  /\ LET r == create(Storage, who, amount, index, root, nominator, state_toggler,
                     funded, staking_ok)
     IN /\ Commit(r.st)
        /\ UsedSeeds' = IF r.res = "Ok" THEN UsedSeeds \cup {index} ELSE UsedSeeds
        /\ UNCHANGED Slashes

Join(who, amount, pool_account, funded, staking_ok) ==
  /\ Commit(join(Storage, who, amount, pool_account, funded, staking_ok).st)
  /\ UNCHANGED <<UsedSeeds, Slashes>>

ClaimPayout(who) ==
  /\ Commit(claim_payout(Storage, who).st)
  /\ UNCHANGED <<UsedSeeds, Slashes>>

UnbondOther(caller, target, staking_ok) ==
  /\ Commit(unbond_other(Storage, caller, target, staking_ok).st)
  /\ UNCHANGED <<UsedSeeds, Slashes>>

PoolWithdrawUnbonded(pool_account, staking_ok) ==
  /\ Commit(pool_withdraw_unbonded(Storage, pool_account, staking_ok).st)
  /\ UNCHANGED <<UsedSeeds, Slashes>>

WithdrawUnbondedOther(caller, target, staking_ok) ==
  /\ Commit(withdraw_unbonded_other(Storage, caller, target, staking_ok).st)
  /\ UNCHANGED <<UsedSeeds, Slashes>>

Nominate(who, pool_account, validators, staking_ok) ==
  /\ Commit(nominate(Storage, who, pool_account, validators, staking_ok).st)
  /\ UNCHANGED <<UsedSeeds, Slashes>>

SetState(who, pool_account, state) ==
  /\ Commit(set_state(Storage, who, pool_account, state).st)
  /\ UNCHANGED <<UsedSeeds, Slashes>>

SlashPool(pool_stash, slash_amount, slash_era) ==
  /\ pool_stash \in DOMAIN Ledger
  /\ Slashes < MaxSlashes
  /\ Commit(slash_pool(Storage, pool_stash, slash_amount, slash_era).st)
  /\ Slashes' = Slashes + 1
  /\ UNCHANGED UsedSeeds

\* the staking engine pays a reward into the pool's reward account
Reward(pool_account, amount) ==
  /\ contains_key(RewardPools, pool_account)
  /\ LET reward_pool == RewardPools[pool_account]
     IN /\ reward_pool.total_earnings
             + (FreeBalance[reward_pool.account] - reward_pool.balance)
             + amount <= MaxEarnings
        /\ FreeBalance' = [FreeBalance EXCEPT ![reward_pool.account] = @ + amount]
  /\ UNCHANGED <<Delegators, BondedPools, RewardPools, SubPoolsStorage, MinJoinBond,
                 MinCreateBond, MaxPools, Ledger, CurrentEra, UsedSeeds, Slashes>>

AdvanceEra ==
  /\ CurrentEra < MaxEra
  /\ CurrentEra' = CurrentEra + 1
  /\ UNCHANGED <<Delegators, BondedPools, RewardPools, SubPoolsStorage, MinJoinBond,
                 MinCreateBond, MaxPools, Ledger, FreeBalance, UsedSeeds, Slashes>>

Pools == {create_accounts(i).pool : i \in Indices}

\* the accounts that create pools
Creators == {"a1"}

\* the pool engine with its sub-pools, slashes and eras; no reward arrives
Next ==
  \/ \E who \in Creators, amount \in 0..MaxAmount, index \in Indices,
        root \in Roots, nominator \in Nominators, state_toggler \in StateTogglers,
        funded \in BOOLEAN, staking_ok \in BOOLEAN :
       Create(who, amount, index, root, nominator, state_toggler, funded, staking_ok)
  \/ \E who \in Accounts, amount \in 0..MaxAmount, pool_account \in Pools,
        funded \in BOOLEAN, staking_ok \in BOOLEAN :
       Join(who, amount, pool_account, funded, staking_ok)
  \/ \E who \in Accounts : ClaimPayout(who)
  \/ \E caller \in Accounts, target \in Accounts, staking_ok \in BOOLEAN :
       UnbondOther(caller, target, staking_ok)
  \/ \E pool_account \in Pools, staking_ok \in BOOLEAN :
       PoolWithdrawUnbonded(pool_account, staking_ok)
  \/ \E caller \in Accounts, target \in Accounts, staking_ok \in BOOLEAN :
       WithdrawUnbondedOther(caller, target, staking_ok)
  \/ \E who \in Accounts, pool_account \in Pools, state \in PoolState :
       SetState(who, pool_account, state)
  \/ \E pool_stash \in Pools, slash_amount \in 1..MaxSlash, slash_era \in Eras :
       SlashPool(pool_stash, slash_amount, slash_era)
  \/ AdvanceEra

Spec == Init /\ [][Next]_vars

\* the reward pool: rewards arrive and are claimed, at a fixed era
NextReward ==
  \/ \E who \in Creators, amount \in 0..MaxAmount, index \in Indices,
        root \in Roots, nominator \in Nominators, state_toggler \in StateTogglers,
        funded \in BOOLEAN, staking_ok \in BOOLEAN :
       Create(who, amount, index, root, nominator, state_toggler, funded, staking_ok)
  \/ \E who \in Accounts, amount \in 0..MaxAmount, pool_account \in Pools,
        funded \in BOOLEAN, staking_ok \in BOOLEAN :
       Join(who, amount, pool_account, funded, staking_ok)
  \/ \E who \in Accounts : ClaimPayout(who)
  \/ \E caller \in Accounts, target \in Accounts, staking_ok \in BOOLEAN :
       UnbondOther(caller, target, staking_ok)
  \/ \E who \in Accounts, pool_account \in Pools, state \in PoolState :
       SetState(who, pool_account, state)
  \/ \E pool_account \in Pools, amount \in 1..MaxEarnings : Reward(pool_account, amount)

SpecReward == Init /\ [][NextReward]_vars

\* pool administration
NextNominate ==
  \/ \E who \in Creators, amount \in 0..MaxAmount, index \in Indices,
        root \in Accounts, nominator \in Accounts, state_toggler \in Accounts,
        funded \in BOOLEAN, staking_ok \in BOOLEAN :
       Create(who, amount, index, root, nominator, state_toggler, funded, staking_ok)
  \/ \E who \in Accounts, amount \in 0..MaxAmount, pool_account \in Pools,
        funded \in BOOLEAN, staking_ok \in BOOLEAN :
       Join(who, amount, pool_account, funded, staking_ok)
  \/ \E who \in Accounts, pool_account \in Pools, validators \in {<<"v1">>, <<>>},
        staking_ok \in BOOLEAN :
       Nominate(who, pool_account, validators, staking_ok)
  \/ \E who \in Accounts, pool_account \in Pools, state \in PoolState :
       SetState(who, pool_account, state)

SpecNominate == Init /\ [][NextNominate]_vars

\* the amounts a slash is tried with; LargeSlash times a large stake exceeds
\* the balance type
SlashAmounts == (1..MaxSlash) \cup {LargeSlash}

\* large stakes and large slashes
NextSlash ==
  \/ \E who \in Creators, amount \in {1, LargeAmount}, index \in Indices,
        root \in Roots, nominator \in Nominators, state_toggler \in StateTogglers,
        funded \in BOOLEAN, staking_ok \in BOOLEAN :
       Create(who, amount, index, root, nominator, state_toggler, funded, staking_ok)
  \/ \E who \in Accounts, amount \in 1..MaxAmount, pool_account \in Pools,
        funded \in BOOLEAN, staking_ok \in BOOLEAN :
       Join(who, amount, pool_account, funded, staking_ok)
  \/ \E caller \in Accounts, target \in Accounts, staking_ok \in BOOLEAN :
       UnbondOther(caller, target, staking_ok)
  \/ \E pool_stash \in Pools, slash_amount \in SlashAmounts, slash_era \in Eras :
       SlashPool(pool_stash, slash_amount, slash_era)
  \/ AdvanceEra

SpecSlash == Init /\ [][NextSlash]_vars

\* large stakes through the whole life of a pool: entry, slashes, the
\* Destroying state, unbonding and withdrawal
NextTeardown ==
  \/ \E who \in Creators, amount \in {1, LargeAmount}, index \in Indices,
        root \in Roots, nominator \in Nominators, state_toggler \in StateTogglers :
       Create(who, amount, index, root, nominator, state_toggler, TRUE, TRUE)
  \/ \E who \in Accounts, amount \in 1..MaxAmount, pool_account \in Pools :
       Join(who, amount, pool_account, TRUE, TRUE)
  \/ \E who \in Accounts, pool_account \in Pools :
       SetState(who, pool_account, Destroying)
  \/ \E caller \in Accounts, target \in Accounts :
       UnbondOther(caller, target, TRUE)
  \/ \E caller \in Accounts, target \in Accounts :
       WithdrawUnbondedOther(caller, target, TRUE)
  \/ \E pool_stash \in Pools, slash_amount \in SlashAmounts, slash_era \in Eras :
       SlashPool(pool_stash, slash_amount, slash_era)
  \/ AdvanceEra

SpecTeardown == Init /\ [][NextTeardown]_vars

\* the sub-pools records maybe_merge_pools is applied to: with_era entries
\* for at most TotalUnbondingPools of the eras up to the current one, each
\* unslashed, slashed or emptied
MergeEraMax == 10
MergeEras == 5..MergeEraMax
MergePools == {[points |-> 1, balance |-> 1], [points |-> 2, balance |-> 1],
               [points |-> 0, balance |-> 0]}
MergeNoEra == {UnbondPool_default, [points |-> 3, balance |-> 2]}

InitMerge ==
  /\ Delegators = EmptyMap
  /\ BondedPools = EmptyMap
  /\ RewardPools = EmptyMap
  /\ MinJoinBond = 0
  /\ MinCreateBond = 0
  /\ MaxPools = Some(PoolSizeMax)
  /\ Ledger = EmptyMap
  /\ FreeBalance = [a \in PoolAccounts \cup RewardAccounts |-> 0]
  /\ CurrentEra \in MergeEras
  /\ UsedSeeds = {}
  /\ Slashes = 0
  /\ \E eras \in SUBSET MergeEras :
       /\ Cardinality(eras) <= TotalUnbondingPools
       /\ \A era \in eras : era <= CurrentEra
       /\ \E no_era \in MergeNoEra, with_era \in [eras -> MergePools] :
            SubPoolsStorage = insert(EmptyMap, create_accounts(0).pool,
                                     [no_era |-> no_era, with_era |-> with_era])

\* SubPools::maybe_merge_pools applied to the record at the current era
MaybeMergePools(pool_account) ==
  /\ contains_key(SubPoolsStorage, pool_account)
  /\ SubPoolsStorage' = insert(SubPoolsStorage, pool_account,
                               maybe_merge_pools(SubPoolsStorage[pool_account], CurrentEra))
  /\ UNCHANGED <<Delegators, BondedPools, RewardPools, MinJoinBond, MinCreateBond,
                 MaxPools, Ledger, FreeBalance, CurrentEra, UsedSeeds, Slashes>>

\* an era passes
NextEra ==
  /\ CurrentEra < MergeEraMax + TotalUnbondingPools
  /\ CurrentEra' = CurrentEra + 1
  /\ UNCHANGED <<Delegators, BondedPools, RewardPools, SubPoolsStorage, MinJoinBond,
                 MinCreateBond, MaxPools, Ledger, FreeBalance, UsedSeeds, Slashes>>

NextMerge ==
  \/ \E pool_account \in Pools : MaybeMergePools(pool_account)
  \/ NextEra

SpecMerge == InitMerge /\ [][NextMerge]_vars

\* the values a genesis configuration gives the minimum bonds and the number
\* of pools
GenesisMinBonds == {0, MaxAmount}
GenesisMaxPools == {None, Some(1), Some(PoolSizeMax)}

\* GenesisBuild::build for any configuration, on empty storage
InitGenesis ==
  /\ Delegators = EmptyMap
  /\ BondedPools = EmptyMap
  /\ RewardPools = EmptyMap
  /\ SubPoolsStorage = EmptyMap
  /\ MinJoinBond \in GenesisMinBonds
  /\ MinCreateBond \in GenesisMinBonds
  /\ MaxPools \in GenesisMaxPools
  /\ Ledger = EmptyMap
  /\ FreeBalance = [a \in PoolAccounts \cup RewardAccounts |-> 0]
  /\ CurrentEra = 0
  /\ UsedSeeds = {}
  /\ Slashes = 0

\* the amounts a pool is created with, and the slashes, of which the large
\* one leaves the largest pool with one unit for its many points
GenesisAmounts == {0, 1, MaxAmount, LargeSlash + 1}
GenesisSlashes == {1, LargeSlash}

\* entry into pools under any genesis configuration, with large stakes
NextGenesis ==
  \/ \E who \in Accounts, amount \in GenesisAmounts, index \in AllIndices,
        root \in Roots, nominator \in Nominators, state_toggler \in StateTogglers :
       Create(who, amount, index, root, nominator, state_toggler, TRUE, TRUE)
  \/ \E who \in Accounts, amount \in 0..MaxAmount, pool_account \in PoolAccounts :
       Join(who, amount, pool_account, TRUE, TRUE)
  \/ \E who \in Accounts, pool_account \in PoolAccounts, state \in PoolState :
       SetState(who, pool_account, state)
  \/ \E pool_stash \in PoolAccounts, slash_amount \in GenesisSlashes :
       SlashPool(pool_stash, slash_amount, 0)

SpecGenesis == InitGenesis /\ [][NextGenesis]_vars

\* several pools: every account may create, on either seed
NextPools ==
  \/ \E who \in Accounts, amount \in 0..MaxAmount, index \in AllIndices,
        root \in Roots, nominator \in Nominators, state_toggler \in StateTogglers,
        funded \in BOOLEAN, staking_ok \in BOOLEAN :
       Create(who, amount, index, root, nominator, state_toggler, funded, staking_ok)
  \/ \E who \in Accounts, amount \in 0..MaxAmount, pool_account \in PoolAccounts,
        funded \in BOOLEAN, staking_ok \in BOOLEAN :
       Join(who, amount, pool_account, funded, staking_ok)
  \/ \E caller \in Accounts, target \in Accounts, staking_ok \in BOOLEAN :
       UnbondOther(caller, target, staking_ok)
  \/ \E caller \in Accounts, target \in Accounts, staking_ok \in BOOLEAN :
       WithdrawUnbondedOther(caller, target, staking_ok)
  \/ AdvanceEra

SpecPools == Init /\ [][NextPools]_vars

(***************************************************************************)
(* Properties                                                              *)
(***************************************************************************)
\* the delegator records of pool_account that are bonded (unbonding_era absent)
BondedDelegators(pool_account) ==
  {d \in DOMAIN Delegators :
     Delegators[d].pool = pool_account /\ is_none(Delegators[d].unbonding_era)}

\* the delegator records of pool_account that are unbonding
UnbondingDelegators(pool_account) ==
  {d \in DOMAIN Delegators :
     Delegators[d].pool = pool_account /\ is_some(Delegators[d].unbonding_era)}

\* C1: for every bonded pool P the stored P.points equals the sum of the points
\* of the delegator records whose pool is P and whose unbonding_era is absent
C1_PointsAreSumOfBonded ==
  \A pool_account \in DOMAIN BondedPools :
    BondedPools[pool_account].points
      = SumOver([d \in BondedDelegators(pool_account) |-> Delegators[d].points],
                BondedDelegators(pool_account))

\* every call of a public operation in the current state, with every input
Calls ==
  {create(Storage, who, amount, index, "a1", "a3", "a2", funded, staking_ok) :
     who \in Accounts, amount \in 0..MaxAmount, index \in Indices,
     funded \in BOOLEAN, staking_ok \in BOOLEAN}
  \cup {join(Storage, who, amount, pool_account, funded, staking_ok) :
     who \in Accounts, amount \in 0..MaxAmount, pool_account \in Pools,
     funded \in BOOLEAN, staking_ok \in BOOLEAN}
  \cup {claim_payout(Storage, who) : who \in Accounts}
  \cup {unbond_other(Storage, caller, target, staking_ok) :
     caller \in Accounts, target \in Accounts, staking_ok \in BOOLEAN}
  \cup {withdraw_unbonded_other(Storage, caller, target, staking_ok) :
     caller \in Accounts, target \in Accounts, staking_ok \in BOOLEAN}
  \cup {nominate(Storage, who, pool_account, validators, staking_ok) :
     who \in Accounts, pool_account \in Pools, validators \in {<<"v1">>, <<>>},
     staking_ok \in BOOLEAN}

\* C2: a public operation that returns an error leaves the delegator,
\* bonded-pool, reward-pool and sub-pool records and all balances as they were
C2_AllOrNothing ==
  \A r \in Calls : r.res # "Ok" => r.st = Storage

\* the sum of the balances of the sub-pools of pool_account
SubPoolsBalance(pool_account) ==
  LET sub_pools == SubPoolsStorage[pool_account]
  IN sub_pools.no_era.balance
       + SumOver([e \in DOMAIN sub_pools.with_era |-> sub_pools.with_era[e].balance],
                 DOMAIN sub_pools.with_era)

\* the sum of the points of the sub-pools of pool_account
SubPoolsPoints(sub_pools) ==
  sub_pools.no_era.points
    + SumOver([e \in DOMAIN sub_pools.with_era |-> sub_pools.with_era[e].points],
              DOMAIN sub_pools.with_era)

\* C3: for every pool the sub-pool balances (no_era and every with_era) sum to
\* at most the unbonded balance at the pool account: its free balance less the
\* active stake
C3_SubPoolsCovered ==
  \A pool_account \in DOMAIN SubPoolsStorage :
    pool_account \in DOMAIN Ledger =>
      SubPoolsBalance(pool_account)
        <= FreeBalance[pool_account] - Ledger[pool_account].active

\* C4: every pool has at most W = bonding_duration + PostUnbondingPoolsWindow
\* with_era entries, and no unbond_other hits the expect of
\* unchecked_with_era_get_or_make
C4_WithEraBounded ==
  /\ \A pool_account \in DOMAIN SubPoolsStorage :
       Cardinality(DOMAIN SubPoolsStorage[pool_account].with_era) <= TotalUnbondingPools
  /\ \A caller \in Accounts, target \in Accounts, staking_ok \in BOOLEAN :
       unbond_other(Storage, caller, target, staking_ok).res # "Panic"

\* C5: when the depositor of a pool is unbonding, or has withdrawn (the pool
\* is gone), the pool is Destroying and no delegator record of the pool is
\* bonded
C5_DepositorLeavesLast ==
  /\ \A pool_account \in DOMAIN BondedPools :
       LET depositor == BondedPools[pool_account].depositor
       IN (depositor \in UnbondingDelegators(pool_account)
             \/ depositor \notin DOMAIN Delegators)
            => /\ BondedPools[pool_account].state = Destroying
               /\ BondedDelegators(pool_account) = {}
  /\ \A d \in DOMAIN Delegators :
       Delegators[d].pool \notin DOMAIN BondedPools
         => is_some(Delegators[d].unbonding_era)

\* C6: the pool of every delegator record is a key of the bonded-pool map and
\* of the reward-pool map
C6_DelegatorPoolLive ==
  \A d \in DOMAIN Delegators :
    /\ Delegators[d].pool \in DOMAIN BondedPools
    /\ Delegators[d].pool \in DOMAIN RewardPools

\* the sub-pools of pool_account, or the default when none are stored
SubPoolsOf(st, pool_account) ==
  unwrap_or(get(st.SubPoolsStorage, pool_account), SubPools_default)

\* the with_era eras of pool_account in (slash_era, apply_era]
AffectedEras(pool_account, slash_era, apply_era) ==
  {e \in DOMAIN SubPoolsOf(Storage, pool_account).with_era :
     slash_era < e /\ e <= apply_era}

\* active_bonded plus the balances of the affected with_era sub-pools
AffectedBalance(pool_account, slash_era, apply_era) ==
  LET with_era == SubPoolsOf(Storage, pool_account).with_era
      affected == AffectedEras(pool_account, slash_era, apply_era)
  IN Ledger[pool_account].active
       + SumOver([e \in affected |-> with_era[e].balance], affected)

\* the balance left of balance after its share of slash_amount, the product
\* slash_amount * balance capped at cap
AfterSlash(balance, slash_amount, affected_balance, cap) ==
  Max(0, balance - (Min(slash_amount * balance, cap) \div affected_balance))

\* a cap no product of two balances reaches
NoCap == MaxBalance * MaxBalance

\* what C7 says of the slash of pool_account, with products capped at cap
SlashAsSpecified(pool_account, slash_amount, slash_era, apply_era, cap) ==
  LET active_bonded == Ledger[pool_account].active
      with_era == SubPoolsOf(Storage, pool_account).with_era
      affected == AffectedEras(pool_account, slash_era, apply_era)
      affected_balance == AffectedBalance(pool_account, slash_era, apply_era)
      r == do_slash(Storage, pool_account, slash_amount, slash_era, apply_era,
                    active_bonded)
      out == unwrap(r.out)
  IN /\ is_some(r.out)
     /\ IF affected_balance > 0
          THEN /\ out.slashed_bonded
                    = AfterSlash(active_bonded, slash_amount, affected_balance, cap)
               /\ DOMAIN out.slashed_unlocking = affected
               /\ \A e \in affected :
                    /\ out.slashed_unlocking[e]
                         = AfterSlash(with_era[e].balance, slash_amount,
                                      affected_balance, cap)
                    /\ SubPoolsOf(r.st, pool_account).with_era[e].balance
                         = out.slashed_unlocking[e]
          ELSE /\ out.slashed_bonded = 0
               /\ out.slashed_unlocking = EmptyMap

\* C7 (as stated): slash_pool on an existing pool returns, when the affected
\* balance is positive, active_bonded - floor(slash_amount * active_bonded /
\* affected_balance) and, for exactly the with_era eras in (slash_era,
\* apply_era], balance - floor(slash_amount * balance / affected_balance), each
\* saturating at zero; the stored balances equal the returned map; a zero
\* affected balance returns zero and an empty map
C7_SlashExact ==
  \A pool_account \in DOMAIN BondedPools, slash_amount \in SlashAmounts,
     slash_era \in Eras, apply_era \in Eras :
    SlashAsSpecified(pool_account, slash_amount, slash_era, apply_era, NoCap)

\* C7 (amended): the same, where each product slash_amount * balance
\* saturates at the maximum of the balance type before the division
C7_SlashSaturating ==
  \A pool_account \in DOMAIN BondedPools, slash_amount \in SlashAmounts,
     slash_era \in Eras, apply_era \in Eras :
    SlashAsSpecified(pool_account, slash_amount, slash_era, apply_era, MaxBalance)

\* what a slash must leave alone: st1 is the storage after a slash of
\* pool_account for the eras in (slash_era, apply_era]
SlashFrame(st1, pool_account, slash_era, apply_era) ==
  LET before == SubPoolsOf(Storage, pool_account)
      after == SubPoolsOf(st1, pool_account)
  IN /\ after.no_era = before.no_era
     /\ DOMAIN after.with_era = DOMAIN before.with_era
     /\ \A e \in DOMAIN before.with_era :
          /\ after.with_era[e].points = before.with_era[e].points
          /\ after.with_era[e].balance <= before.with_era[e].balance
          /\ ~(slash_era < e /\ e <= apply_era) => after.with_era[e] = before.with_era[e]
     /\ \A other \in DOMAIN SubPoolsStorage :
          other # pool_account => SubPoolsOf(st1, other) = SubPoolsStorage[other]
     /\ st1.BondedPools = BondedPools
     /\ st1.Delegators = Delegators
     /\ st1.RewardPools = RewardPools

\* C8: a slash_pool call leaves unchanged the points of every sub-pool, the
\* no_era pool, every with_era entry outside (slash_era, apply_era], the bonded
\* pool's points and all delegator and reward-pool records; no with_era
\* balance grows
C8_SlashFrame ==
  \A pool_account \in DOMAIN BondedPools, slash_amount \in SlashAmounts,
     slash_era \in Eras, apply_era \in Eras :
    /\ SlashFrame(do_slash(Storage, pool_account, slash_amount, slash_era, apply_era,
                           Ledger[pool_account].active).st,
                  pool_account, slash_era, apply_era)
    /\ SlashFrame(slash_pool(Storage, pool_account, slash_amount, slash_era).st,
                  pool_account, slash_era, CurrentEra)

\* the permission matrix of unbond_other as C9 states it
UnbondAllowed(bonded_pool, caller, target, delegator) ==
  LET is_depositor == target = bonded_pool.depositor
      kicker == caller \in {bonded_pool.root, bonded_pool.state_toggler}
  IN \/ caller = target /\ ~is_depositor
     \/ /\ caller # target
        /\ ~is_depositor
        /\ (bonded_pool.state = Blocked /\ kicker) \/ bonded_pool.state = Destroying
     \/ /\ is_depositor
        /\ bonded_pool.state = Destroying
        /\ delegator.points = bonded_pool.points

\* C9: unbond_other(target) by caller passes the permission check exactly when
\* (1) caller = target is not the depositor, (2) caller # target, target is
\* not the depositor and the pool is Blocked with caller root or state
\* toggler, or Destroying, (3) target is the depositor, the pool is Destroying
\* and target holds all the pool's points; otherwise it fails with
\* NotKickerOrDestroying (non-depositor) or NotOnlyDelegator / NotDestroying
\* (depositor)
C9_UnbondPermission ==
  \A target \in DOMAIN Delegators, caller \in Accounts :
    Delegators[target].pool \in DOMAIN BondedPools =>
      LET delegator == Delegators[target]
          bonded_pool == BondedPools[delegator.pool]
          res == ok_to_unbond_other_with(bonded_pool, caller, target, delegator)
          allowed == UnbondAllowed(bonded_pool, caller, target, delegator)
      IN /\ res = "Ok" <=> allowed
         /\ ~allowed =>
              /\ IF target = bonded_pool.depositor
                   THEN res \in {"NotOnlyDelegator", "NotDestroying"}
                   ELSE res = "NotKickerOrDestroying"
              /\ \A staking_ok \in BOOLEAN :
                   unbond_other(Storage, caller, target, staking_ok) = Err(Storage, res)

\* the depositor holds every share of the sub-pools: all in no_era with
\* with_era empty, or all in the one with_era entry
HoldsEveryShare(sub_pools, delegator) ==
  /\ SubPoolsPoints(sub_pools) = delegator.points
  /\ \/ /\ DOMAIN sub_pools.with_era = {}
        /\ sub_pools.no_era.points = delegator.points
     \/ /\ Cardinality(DOMAIN sub_pools.with_era) = 1
        /\ \A e \in DOMAIN sub_pools.with_era :
             sub_pools.with_era[e].points = delegator.points

\* the permission matrix of withdraw_unbonded_other as C10 states it
WithdrawAllowed(bonded_pool, caller, target, delegator, sub_pools) ==
  LET kicker == caller \in {bonded_pool.root, bonded_pool.state_toggler}
  IN IF target # bonded_pool.depositor
       THEN \/ caller = target
            \/ bonded_pool.state = Blocked /\ kicker
            \/ bonded_pool.state = Destroying
       ELSE /\ bonded_pool.state = Destroying
            /\ HoldsEveryShare(sub_pools, delegator)

\* the unbonding delegators whose bonding duration has passed
Withdrawable ==
  {d \in DOMAIN Delegators :
     /\ is_some(Delegators[d].unbonding_era)
     /\ CurrentEra >= unwrap(Delegators[d].unbonding_era) + bonding_duration
     /\ Delegators[d].pool \in DOMAIN BondedPools
     /\ Delegators[d].pool \in DOMAIN SubPoolsStorage}

\* C10: withdraw_unbonded_other(target) is permitted for a non-depositor
\* target when caller = target, or the pool is Blocked with caller root or
\* state toggler, or the pool is Destroying; for the depositor when the pool is
\* Destroying and the depositor holds every share of the sub-pools; otherwise
\* it fails with NotKickerOrDestroying or NotOnlyDelegator and changes nothing
C10_WithdrawPermission ==
  \A target \in Withdrawable, caller \in Accounts :
    LET delegator == Delegators[target]
        bonded_pool == BondedPools[delegator.pool]
        sub_pools == SubPoolsStorage[delegator.pool]
        res == ok_to_withdraw_unbonded_other_with(bonded_pool, caller, target,
                                                  delegator, sub_pools).res
        allowed == WithdrawAllowed(bonded_pool, caller, target, delegator, sub_pools)
    IN /\ res = "Ok" <=> allowed
       /\ ~allowed =>
            /\ res = IF target = bonded_pool.depositor
                       THEN "NotOnlyDelegator" ELSE "NotKickerOrDestroying"
            /\ \A staking_ok \in BOOLEAN :
                 withdraw_unbonded_other(Storage, caller, target, staking_ok)
                   = Err(Storage, res)
       /\ allowed =>
            withdraw_unbonded_other(Storage, caller, target, TRUE).res
              \notin {"NotOnlyDelegator", "NotKickerOrDestroying"}

\* C1 witness: a slashed pool with two bonded delegators and one unbonding
C1_Witness ==
  \E pool_account \in DOMAIN BondedPools :
    /\ Cardinality(BondedDelegators(pool_account)) >= 2
    /\ UnbondingDelegators(pool_account) # {}
    /\ BondedPools[pool_account].points > Ledger[pool_account].active
    /\ Slashes > 0

\* C4 witness: a pool whose with_era map is full after a merge into no_era
C4_Witness ==
  \E pool_account \in DOMAIN SubPoolsStorage :
    /\ Cardinality(DOMAIN SubPoolsStorage[pool_account].with_era) = TotalUnbondingPools
    /\ SubPoolsStorage[pool_account].no_era.points > 0

\* C7 witness: a pool with an unbonding sub-pool and a stake so large that
\* the product with LargeSlash exceeds the balance type
C7_Witness ==
  \E pool_account \in DOMAIN BondedPools, slash_era \in Eras :
    /\ AffectedEras(pool_account, slash_era, CurrentEra) # {}
    /\ LargeSlash * Ledger[pool_account].active > MaxBalance
    /\ is_some(do_slash(Storage, pool_account, LargeSlash, slash_era, CurrentEra,
                        Ledger[pool_account].active).out)

\* C8 witness: after a slash, a pool with a slashed with_era entry and a
\* no_era pool that holds points
C8_Witness ==
  /\ Slashes > 0
  /\ \E pool_account \in DOMAIN SubPoolsStorage :
       /\ pool_account \in DOMAIN BondedPools
       /\ SubPoolsStorage[pool_account].no_era.points > 0
       /\ \E e \in DOMAIN SubPoolsStorage[pool_account].with_era :
            SubPoolsStorage[pool_account].with_era[e].balance
              < SubPoolsStorage[pool_account].with_era[e].points

\* C9 witness: a Blocked pool with a non-depositor delegator unbonding and
\* another still bonded, whom only the root or the state toggler may kick
C9_Witness ==
  \E pool_account \in DOMAIN BondedPools :
    /\ BondedPools[pool_account].state = Blocked
    /\ UnbondingDelegators(pool_account) # {}
    /\ \E d \in BondedDelegators(pool_account), caller \in Accounts :
         /\ d # BondedPools[pool_account].depositor
         /\ caller # d
         /\ ok_to_unbond_other_with(BondedPools[pool_account], caller, d,
                                    Delegators[d]) = "NotKickerOrDestroying"

\* C10 witness: the depositor, the only holder of sub-pool shares in a
\* Destroying pool, may withdraw, and no other caller is refused either
C10_Witness ==
  \E target \in Withdrawable :
    /\ target = BondedPools[Delegators[target].pool].depositor
    /\ BondedPools[Delegators[target].pool].state = Destroying
    /\ \A caller \in Accounts :
         withdraw_unbonded_other(Storage, caller, target, TRUE).res = "Ok"

\* a step that changes the state of pool_account is a set_state by its root
\* or state-toggler
StateSetByAdmin(pool_account) ==
  \E who \in {BondedPools[pool_account].root, BondedPools[pool_account].state_toggler},
     state \in PoolState :
    /\ set_state(Storage, who, pool_account, state).res = "Ok"
    /\ BondedPools' = set_state(Storage, who, pool_account, state).st.BondedPools

\* a pool is created Open; a pool's state changes only in a
\* set_state by its root or state-toggler; a Destroying pool stays Destroying
\* until its record is removed
PoolStateStep ==
  \A pool_account \in DOMAIN BondedPools' :
    IF pool_account \notin DOMAIN BondedPools
      THEN BondedPools'[pool_account].state = Open
    ELSE /\ BondedPools'[pool_account].state # BondedPools[pool_account].state
              => StateSetByAdmin(pool_account)
         /\ BondedPools[pool_account].state = Destroying
              => BondedPools'[pool_account].state = Destroying

\* set_state by an account that is neither root nor
\* state-toggler, or on a Destroying pool, fails and changes nothing
SetStateRefused ==
  \A pool_account \in DOMAIN BondedPools, who \in Accounts, state \in PoolState :
    (who \notin {BondedPools[pool_account].root, BondedPools[pool_account].state_toggler}
       \/ BondedPools[pool_account].state = Destroying)
      => set_state(Storage, who, pool_account, state) = Err(Storage, "CanNotChangeState")

\* C11: the pool state starts Open on create, is moved only by the pool's
\* root or state-toggler, and once Destroying stays Destroying until the pool
\* record is removed
C11_PoolStateMachine == []SetStateRefused /\ [][PoolStateStep]_vars

\* C11 witness: a pool that went Destroying, in which a delegator has since
\* unbonded and the era has moved on
C11_Witness ==
  \E pool_account \in DOMAIN BondedPools :
    /\ BondedPools[pool_account].state = Destroying
    /\ UnbondingDelegators(pool_account) # {}
    /\ BondedDelegators(pool_account) # {}
    /\ CurrentEra > 0

\* every create and join that who can call in the current state
CreatesAndJoins(who) ==
  {create(Storage, who, amount, index, "a1", "a3", "a2", funded, staking_ok) :
     amount \in 0..MaxAmount, index \in AllIndices,
     funded \in BOOLEAN, staking_ok \in BOOLEAN}
  \cup {join(Storage, who, amount, pool_account, funded, staking_ok) :
     amount \in 0..MaxAmount, pool_account \in PoolAccounts,
     funded \in BOOLEAN, staking_ok \in BOOLEAN}

\* a delegator record is never rewritten for another pool
DelegatorKeepsPool ==
  \A who \in DOMAIN Delegators :
    who \in DOMAIN Delegators' => Delegators'[who].pool = Delegators[who].pool

\* C12 (as stated): join and create by an account that has a delegator
\* record, bonded or unbonding, fail with AccountBelongsToOtherPool and change
\* no state
C12_OneRecordErrorName ==
  \A who \in DOMAIN Delegators :
    \A r \in CreatesAndJoins(who) : r = Err(Storage, "AccountBelongsToOtherPool")

\* join and create by an account that has a delegator record fail and change
\* no state; the error is AccountBelongsToOtherPool unless the checks made
\* before it (the minimum bond, the number of pools) fail first
OneRecordRefused ==
  \A who \in DOMAIN Delegators :
    /\ \A r \in CreatesAndJoins(who) :
         /\ r.st = Storage
         /\ r.res \in {"AccountBelongsToOtherPool", "MinimumBondNotMet", "MaxPools"}
    /\ \A amount \in 0..MaxAmount, index \in AllIndices :
         create(Storage, who, amount, index, "a1", "a3", "a2", TRUE, TRUE).res
           = IF ~(amount >= minimum_bond /\ amount >= MinCreateBond)
               THEN "MinimumBondNotMet"
             ELSE IF is_some(MaxPools)
                       /\ Cardinality(DOMAIN BondedPools) >= unwrap(MaxPools)
               THEN "MaxPools"
             ELSE "AccountBelongsToOtherPool"
    /\ \A amount \in 0..MaxAmount, pool_account \in PoolAccounts :
         join(Storage, who, amount, pool_account, TRUE, TRUE).res
           = IF amount >= MinJoinBond
               THEN "AccountBelongsToOtherPool" ELSE "MinimumBondNotMet"

\* C12 (amended): an account has at most one delegator record and the record
\* stays with its pool: join and create by an account that has a record fail
\* and change no state, with AccountBelongsToOtherPool unless an earlier check
\* (MinimumBondNotMet, MaxPools) fails first
C12_OneRecord == []OneRecordRefused /\ [][DelegatorKeepsPool]_vars

\* C12 witness: an unbonding delegator of one pool while another pool is
\* Open, whose join of that pool is refused
C12_Witness ==
  \E who \in DOMAIN Delegators, pool_account \in DOMAIN BondedPools :
    /\ pool_account # Delegators[who].pool
    /\ is_some(Delegators[who].unbonding_era)
    /\ BondedPools[pool_account].state = Open
    /\ join(Storage, who, 1, pool_account, TRUE, TRUE).res = "AccountBelongsToOtherPool"

\* the orders in which the accounts of S can each act once
Orders(S) ==
  {o \in [1..Cardinality(S) -> S] : \A i, j \in DOMAIN o : i # j => o[i] # o[j]}

\* the storage after the first k accounts of order have claimed, one after
\* the other, from st
RECURSIVE AfterClaims(_, _, _)
AfterClaims(st, order, k) ==
  IF k = 0 THEN st ELSE claim_payout(AfterClaims(st, order, k - 1), order[k]).st

\* the k-th claim of order
NthClaim(st, order, k) == claim_payout(AfterClaims(st, order, k - 1), order[k])

\* what the k-th claim of order pays
NthPayout(st, order, k) ==
  LET c == NthClaim(st, order, k) IN IF c.res = "Ok" THEN c.ev[1].amount ELSE 0

\* the reward pool of pool_account is fully settled: its account is empty,
\* no points are left in it and every bonded delegator has claimed up to its
\* total earnings
Settled(pool_account) ==
  /\ contains_key(RewardPools, pool_account)
  /\ RewardPools[pool_account].balance = 0
  /\ RewardPools[pool_account].points = 0
  /\ FreeBalance[RewardPools[pool_account].account] = 0
  /\ \A d \in BondedDelegators(pool_account) :
       Delegators[d].reward_pool_total_earnings = RewardPools[pool_account].total_earnings

\* the storage when a reward of R has arrived in the reward account of
\* pool_account
Rewarded(pool_account, R) == deposit(Storage, RewardPools[pool_account].account, R)

\* a reward of R into the reward pool of pool_account, then one claim by
\* every bonded delegator in order: every claim succeeds, the payouts sum to
\* R, and the reward account and reward_pool.balance end at 0
RoundPaysAll(pool_account, R, order) ==
  LET st == Rewarded(pool_account, R)
      n == Len(order)
      end == AfterClaims(st, order, n)
  IN /\ \A k \in 1..n : NthClaim(st, order, k).res = "Ok"
     /\ SumOver([k \in 1..n |-> NthPayout(st, order, k)], 1..n) = R
     /\ end.FreeBalance[RewardPools[pool_account].account] = 0
     /\ end.RewardPools[pool_account].balance = 0

\* payout is R * points / bonded_points, less than one unit off
TruncatedShare(payout, R, points, bonded_points, k) ==
  /\ payout * bonded_points > R * points - bonded_points
  /\ payout * bonded_points < R * points + bonded_points

\* payout is at least R * points / bonded_points rounded down, and exceeds
\* R * points / bonded_points by at most the units that the k - 1 claims
\* before it lost to rounding, less than one each
ShareWithRemainders(payout, R, points, bonded_points, k) ==
  /\ payout * bonded_points > R * points - bonded_points
  /\ payout * bonded_points <= R * points + (k - 1) * bonded_points
  /\ k = 1 => payout = (R * points) \div bonded_points

\* C13 (as stated): a reward of R into a fully settled reward pool, then one
\* claim by every bonded delegator: each receives R * points / bonded points
\* up to truncation (less than one unit off), the payouts sum to R, and the
\* reward account and reward_pool.balance end at 0
C13_ProportionalPayout ==
  \A pool_account \in DOMAIN BondedPools :
    (Settled(pool_account) /\ BondedPools[pool_account].points > 0) =>
      \A R \in 1..MaxReward, order \in Orders(BondedDelegators(pool_account)) :
        /\ RoundPaysAll(pool_account, R, order)
        /\ \A k \in 1..Len(order) :
             TruncatedShare(NthPayout(Rewarded(pool_account, R), order, k), R,
                            Delegators[order[k]].points,
                            BondedPools[pool_account].points, k)

\* C13 (amended): a reward of R into a fully settled reward pool, then one
\* claim by every bonded delegator: the payouts sum to R and the reward
\* account and reward_pool.balance end at 0; the first claim pays
\* R * points / bonded points rounded down, and a later claim pays at least
\* that and at most the exact share plus the units earlier claims lost to
\* rounding
C13_PayoutWithRemainders ==
  \A pool_account \in DOMAIN BondedPools :
    (Settled(pool_account) /\ BondedPools[pool_account].points > 0) =>
      \A R \in 1..MaxReward, order \in Orders(BondedDelegators(pool_account)) :
        /\ RoundPaysAll(pool_account, R, order)
        /\ \A k \in 1..Len(order) :
             ShareWithRemainders(NthPayout(Rewarded(pool_account, R), order, k), R,
                                 Delegators[order[k]].points,
                                 BondedPools[pool_account].points, k)

\* C13 witness: a pool settled by claims of earlier rewards, with two bonded
\* delegators of different points, where a reward of 3 is paid 1 and 2
C13_Witness ==
  \E pool_account \in DOMAIN BondedPools :
    /\ Settled(pool_account)
    /\ RewardPools[pool_account].total_earnings > 0
    /\ \E order \in Orders(BondedDelegators(pool_account)) :
         /\ Len(order) = 2
         /\ Delegators[order[1]].points = 1
         /\ Delegators[order[2]].points = 2
         /\ NthPayout(Rewarded(pool_account, 3), order, 1) = 1
         /\ NthPayout(Rewarded(pool_account, 3), order, 2) = 2

\* two bonded delegators of one pool with the same points and the same reward
\* watermark
EqualPairs ==
  {pair \in (DOMAIN Delegators) \X (DOMAIN Delegators) :
     /\ pair[1] # pair[2]
     /\ Delegators[pair[1]].pool = Delegators[pair[2]].pool
     /\ is_none(Delegators[pair[1]].unbonding_era)
     /\ is_none(Delegators[pair[2]].unbonding_era)
     /\ Delegators[pair[1]].points = Delegators[pair[2]].points
     /\ Delegators[pair[1]].reward_pool_total_earnings
          = Delegators[pair[2]].reward_pool_total_earnings}

\* C14 (as stated): two delegators with the same points and the same reward
\* watermark who claim one right after the other, with no reward in between,
\* receive equal payouts, whichever claims first
C14_EqualPayouts ==
  \A pair \in EqualPairs :
    /\ NthClaim(Storage, pair, 1).res = "Ok"
    /\ NthClaim(Storage, pair, 2).res = "Ok"
    /\ NthPayout(Storage, pair, 1) = NthPayout(Storage, pair, 2)

\* C14 (amended): two delegators with the same points and the same reward
\* watermark who claim one right after the other, with no reward in between,
\* receive payouts that differ by at most one unit, and the one who claims
\* second never receives less
C14_PayoutsWithinOne ==
  \A pair \in EqualPairs :
    /\ NthClaim(Storage, pair, 1).res = "Ok"
    /\ NthClaim(Storage, pair, 2).res = "Ok"
    /\ NthPayout(Storage, pair, 1) <= NthPayout(Storage, pair, 2)
    /\ NthPayout(Storage, pair, 2) <= NthPayout(Storage, pair, 1) + 1

\* C14 witness: two equal delegators beside a third, with a reward to claim,
\* whose claims pay 0 and then 1
C14_Witness ==
  \E pair \in EqualPairs :
    /\ Cardinality(BondedDelegators(Delegators[pair[1]].pool)) = 3
    /\ Delegators[pair[1]].points > 0
    /\ NthPayout(Storage, pair, 1) = 0
    /\ NthPayout(Storage, pair, 2) = 1

\* C15: a second claim_payout by a bonded delegator, made directly after a
\* first one, pays out zero and leaves the reward pool's points, balance and
\* total_earnings unchanged
C15_SecondClaimPaysZero ==
  \A who \in DOMAIN Delegators :
    LET first == claim_payout(Storage, who)
        second == claim_payout(first.st, who)
    IN first.res = "Ok" =>
         /\ second.res = "Ok"
         /\ second.ev[1].amount = 0
         /\ second.st.RewardPools = first.st.RewardPools
         /\ second.st.FreeBalance = first.st.FreeBalance

\* C15 witness: a delegator whose claim pays out and leaves a balance in the
\* reward pool for the others
C15_Witness ==
  \E who \in DOMAIN Delegators :
    /\ claim_payout(Storage, who).res = "Ok"
    /\ claim_payout(Storage, who).ev[1].amount > 0
    /\ claim_payout(Storage, who).st.RewardPools[Delegators[who].pool].balance > 0

\* who joins pool_account with amount, unbonds at once and withdraws when
\* bonding_duration eras have passed, with nothing else in between: the three
\* calls
RoundTrip(who, pool_account, amount) ==
  LET joined == join(Storage, who, amount, pool_account, TRUE, TRUE)
      unbonded == unbond_other(joined.st, who, who, TRUE)
      later == [unbonded.st EXCEPT !.CurrentEra = @ + bonding_duration]
  IN [join |-> joined, unbond |-> unbonded,
      withdraw |-> withdraw_unbonded_other(later, who, who, TRUE)]

\* C16: with no reward and no slash in between, a delegator who joins with
\* amount n, unbonds and withdraws after bonding_duration receives n back,
\* short by at most one unit for each of the four divisions (issuance on join,
\* redemption on unbond, issuance into the sub-pool, redemption on withdraw),
\* whatever the pool's ratio of points to balance is at the join
C16_RoundTrip ==
  \A who \in Accounts, pool_account \in DOMAIN BondedPools, n \in 1..MaxAmount :
    LET trip == RoundTrip(who, pool_account, n)
    IN trip.join.res = "Ok" =>
         /\ trip.unbond.res = "Ok"
         /\ trip.withdraw.res = "Ok"
         /\ trip.withdraw.ev[1].event = "Withdrawn"
         /\ trip.withdraw.ev[1].amount <= n
         /\ trip.withdraw.ev[1].amount + 4 >= n

\* what the reward pool of pool_account has earned in its lifetime: the
\* earnings it has recorded and what has arrived in its account since
LifetimeEarnings(pool_account) ==
  RewardPools[pool_account].total_earnings
    + (FreeBalance[RewardPools[pool_account].account] - RewardPools[pool_account].balance)

\* C17: a delegator who joins gets reward_pool_total_earnings equal to the
\* reward pool's lifetime earnings, with everything that sits in the reward
\* account at the join, so its claim before any new reward pays zero, also
\* when another delegator has claimed in between
C17_JoinerWatermark ==
  \A who \in Accounts, pool_account \in DOMAIN BondedPools, amount \in 0..MaxAmount :
    LET joined == join(Storage, who, amount, pool_account, TRUE, TRUE)
        claimed == claim_payout(joined.st, who)
    IN joined.res = "Ok" =>
         /\ joined.st.Delegators[who].reward_pool_total_earnings
              = LifetimeEarnings(pool_account)
         /\ claimed.res = "Ok"
         /\ claimed.ev[1].amount = 0
         /\ \A other \in BondedDelegators(pool_account) :
              LET after == claim_payout(claim_payout(joined.st, other).st, who)
              IN after.res = "Ok" /\ after.ev[1].amount = 0

\* C17 witness: a reward that no one has claimed sits in the reward account
\* of a pool that a new delegator joins with a positive amount
C17_Witness ==
  \E who \in Accounts, pool_account \in DOMAIN BondedPools :
    /\ join(Storage, who, 1, pool_account, TRUE, TRUE).res = "Ok"
    /\ RewardPools[pool_account].total_earnings = 0
    /\ LifetimeEarnings(pool_account) > 0
    /\ \E other \in BondedDelegators(pool_account) :
         claim_payout(join(Storage, who, 1, pool_account, TRUE, TRUE).st, other).ev[1].amount > 0

\* the delegators whose unbonding_era is set
Unbonding == {who \in DOMAIN Delegators : is_some(Delegators[who].unbonding_era)}

\* the error of a call on the unbonding delegator who that has come as far
\* as the check named passed: the pool's record is looked up first, and the
\* delegator's unbonding_era is looked at last
RefusalAfter(who, passed) ==
  IF ~contains_key(BondedPools, Delegators[who].pool) THEN "PoolNotFound"
  ELSE IF passed # "Ok" THEN passed
  ELSE "AlreadyUnbonding"

\* a delegator record keeps the unbonding_era it has
UnbondingEraKept ==
  \A who \in Unbonding :
    who \in DOMAIN Delegators' =>
      Delegators'[who].unbonding_era = Delegators[who].unbonding_era

\* C18 (as stated): claim_payout by a delegator whose unbonding_era is set,
\* and a second unbond_other targeting it, both fail with AlreadyUnbonding and
\* change no state
C18_AlreadyUnbonding ==
  \A who \in Unbonding :
    /\ claim_payout(Storage, who) = Err(Storage, "AlreadyUnbonding")
    /\ \A caller \in Accounts, staking_ok \in BOOLEAN :
         unbond_other(Storage, caller, who, staking_ok) = Err(Storage, "AlreadyUnbonding")

\* claim_payout by a delegator whose unbonding_era is set and unbond_other
\* targeting it fail and change no state; the error is AlreadyUnbonding when
\* the checks made before it pass
UnbondingRefused ==
  \A who \in Unbonding :
    /\ claim_payout(Storage, who) = Err(Storage, RefusalAfter(who, "Ok"))
    /\ \A caller \in Accounts, staking_ok \in BOOLEAN :
         unbond_other(Storage, caller, who, staking_ok)
           = Err(Storage,
                 RefusalAfter(who,
                   ok_to_unbond_other_with(BondedPools[Delegators[who].pool],
                                           caller, who, Delegators[who])))

\* C18 (amended): a delegator whose unbonding_era is set cannot claim and
\* cannot be unbonded again: claim_payout fails with AlreadyUnbonding, and
\* unbond_other fails with the error of its permission check when the caller
\* does not pass it and with AlreadyUnbonding otherwise (both with
\* PoolNotFound when the pool's record is gone); nothing changes, and the
\* record's unbonding_era never changes once set
C18_UnbondingOnce == []UnbondingRefused /\ [][UnbondingEraKept]_vars

\* C18 witness: an unbonding delegator of a live pool, an era after it
\* unbonded, whose own second unbond_other is refused with AlreadyUnbonding
\* and another account's with NotKickerOrDestroying
C18_Witness ==
  \E who \in Unbonding :
    /\ contains_key(BondedPools, Delegators[who].pool)
    /\ CurrentEra > unwrap(Delegators[who].unbonding_era)
    /\ claim_payout(Storage, who).res = "AlreadyUnbonding"
    /\ unbond_other(Storage, who, who, TRUE).res = "AlreadyUnbonding"
    /\ \E caller \in Accounts :
         unbond_other(Storage, caller, who, TRUE).res = "NotKickerOrDestroying"

\* pool_account is Destroying and its depositor holds its only delegator
\* record: every other delegator has unbonded and withdrawn
ReadyForTeardown(pool_account) ==
  /\ BondedPools[pool_account].state = Destroying
  /\ {d \in DOMAIN Delegators : Delegators[d].pool = pool_account}
       = {BondedPools[pool_account].depositor}

\* nothing of pool_account and its depositor who is left in st
TornDown(st, pool_account, who) ==
  /\ ~contains_key(st.BondedPools, pool_account)
  /\ ~contains_key(st.RewardPools, pool_account)
  /\ ~contains_key(st.SubPoolsStorage, pool_account)
  /\ ~contains_key(st.Delegators, who)
  /\ st.FreeBalance[pool_account] = 0
  /\ st.FreeBalance[RewardPools[pool_account].account] = 0

\* the depositor who withdraws from st when bonding_duration eras have passed
WithdrawLater(st, who) ==
  withdraw_unbonded_other([st EXCEPT !.CurrentEra = @ + bonding_duration], who, who, TRUE)

\* C19: when the other delegators have unbonded and withdrawn and the pool
\* is Destroying, the depositor can unbond as sole delegator and, after
\* bonding_duration eras, withdraw; that withdraw removes the bonded-pool,
\* reward-pool and sub-pools records and the depositor's delegator record and
\* sets the free balance of the bonded and reward accounts to zero
C19_Teardown ==
  \A pool_account \in DOMAIN BondedPools :
    LET who == BondedPools[pool_account].depositor
        unbonded == unbond_other(Storage, who, who, TRUE)
        withdrawn == withdraw_unbonded_other(Storage, who, who, TRUE)
    IN ReadyForTeardown(pool_account) =>
         IF is_none(Delegators[who].unbonding_era)
           THEN /\ unbonded.res = "Ok"
                /\ unbonded.st.Delegators[who].unbonding_era = Some(CurrentEra)
                /\ WithdrawLater(unbonded.st, who).res = "Ok"
                /\ TornDown(WithdrawLater(unbonded.st, who).st, pool_account, who)
         ELSE CurrentEra >= unwrap(Delegators[who].unbonding_era) + bonding_duration =>
                /\ withdrawn.res = "Ok"
                /\ TornDown(withdrawn.st, pool_account, who)

\* the error withdraw_unbonded_other returns first for target: none ("Ok")
\* from the era on in which bonding_duration has passed
WithdrawTooEarly(target) ==
  IF ~contains_key(Delegators, target) THEN "DelegatorNotFound"
  ELSE IF is_none(Delegators[target].unbonding_era) THEN "NotUnbonding"
  ELSE IF CurrentEra - unwrap(Delegators[target].unbonding_era) < bonding_duration
    THEN "NotUnbondedYet"
  ELSE "Ok"

\* withdraw_unbonded_other fails with the error of WithdrawTooEarly, whoever
\* calls, and changes nothing
WithdrawRefused ==
  \A caller \in Accounts, target \in Accounts, staking_ok \in BOOLEAN :
    WithdrawTooEarly(target) # "Ok" =>
      withdraw_unbonded_other(Storage, caller, target, staking_ok)
        = Err(Storage, WithdrawTooEarly(target))

\* a delegator record leaves storage, as it does when its funds are paid
\* out, only when bonding_duration eras have passed since its unbonding_era
NoEarlyWithdraw ==
  \A who \in DOMAIN Delegators :
    who \notin DOMAIN Delegators' => WithdrawTooEarly(who) = "Ok"

\* C20: withdraw_unbonded_other(target) fails with DelegatorNotFound if
\* target has no record, with NotUnbonding if its unbonding_era is absent and
\* with NotUnbondedYet if current_era - unbonding_era < bonding_duration, and
\* nothing changes; no delegator receives unbonded funds before
\* bonding_duration eras have passed since its unbonding_era
C20_WithdrawTooEarly == []WithdrawRefused /\ [][NoEarlyWithdraw]_vars

\* C20 witness: a bonded delegator, a delegator that unbonded in this era
\* and is refused, and one that unbonded bonding_duration eras ago and is paid
C20_Witness ==
  \E bonded \in Accounts, early \in Accounts, ready \in Accounts :
    /\ WithdrawTooEarly(bonded) = "NotUnbonding"
    /\ WithdrawTooEarly(early) = "NotUnbondedYet"
    /\ Delegators[early].points > 0
    /\ withdraw_unbonded_other(Storage, early, early, TRUE).res = "NotUnbondedYet"
    /\ WithdrawTooEarly(ready) = "Ok"
    /\ withdraw_unbonded_other(Storage, ready, ready, TRUE).res = "Ok"
    /\ withdraw_unbonded_other(Storage, ready, ready, TRUE).ev[1].event = "Withdrawn"

\* the amounts a join is tried with: up to the limit of the overflow check and
\* beyond it, and the largest balance
JoinAmounts == (0..((MaxBalance \div PoolSizeMax) + 1)) \cup {MaxBalance}

\* what the staking engine holds bonded for pool_account
Bonded(pool_account) ==
  IF pool_account \in DOMAIN Ledger THEN Ledger[pool_account].active ELSE 0

\* the refusal of join(amount, pool_account) by an account without a
\* delegator record, "Ok" when the precheck accepts it
JoinRefusal(amount, pool_account) ==
  IF amount < MinJoinBond THEN "MinimumBondNotMet"
  ELSE IF pool_account \notin DOMAIN BondedPools THEN "PoolNotFound"
  ELSE IF BondedPools[pool_account].state \in {Blocked, Destroying} THEN "NotOpen"
  ELSE IF \/ Bonded(pool_account) = 0
          \/ BondedPools[pool_account].points \div Bonded(pool_account) >= PoolSizeMax
          \/ amount + Bonded(pool_account) >= MaxBalance \div PoolSizeMax
    THEN "OverflowRisk"
  ELSE "Ok"

\* C21: join(amount, pool) is refused, with no state change, with
\* MinimumBondNotMet when amount < MinJoinBond, PoolNotFound when the pool does
\* not exist, NotOpen when the pool is Blocked or Destroying, and OverflowRisk
\* when the bonded balance is zero, when floor(points / bonded_balance) >=
\* PoolSizeMax, or when amount + bonded_balance >= max_balance / PoolSizeMax;
\* it is accepted in every other case
C21_JoinPrecheck ==
  \A who \in Accounts \ DOMAIN Delegators, amount \in JoinAmounts,
     pool_account \in PoolAccounts, funded \in BOOLEAN, staking_ok \in BOOLEAN :
    LET joined == join(Storage, who, amount, pool_account, funded, staking_ok)
    IN IF JoinRefusal(amount, pool_account) # "Ok"
         THEN joined = Err(Storage, JoinRefusal(amount, pool_account))
       ELSE /\ joined.res \notin {"MinimumBondNotMet", "PoolNotFound", "NotOpen",
                                  "OverflowRisk"}
            /\ (funded /\ staking_ok) => joined.res = "Ok"

\* C21 witness: a minimum join bond is set, one pool is Open with ten points
\* or more for each unit bonded and the other is not Open, so that a join is
\* refused with each of the errors, and accepted by neither pool
C21_Witness ==
  \E who \in Accounts \ DOMAIN Delegators, open \in DOMAIN BondedPools,
     closed \in DOMAIN BondedPools :
    /\ MinJoinBond > 0
    /\ BondedPools[open].state = Open
    /\ Bonded(open) > 0
    /\ join(Storage, who, 0, open, TRUE, TRUE).res = "MinimumBondNotMet"
    /\ join(Storage, who, MinJoinBond, open, TRUE, TRUE).res = "OverflowRisk"
    /\ join(Storage, who, MinJoinBond, closed, TRUE, TRUE).res = "NotOpen"

\* C22: for every join that passes ok_to_join_with, the product
\* current_points * amount of points_to_issue and the sum of the pool's points
\* and the points issued do not exceed the balance type's maximum: neither the
\* saturating multiplication nor the saturating addition of the issuance
\* saturates
C22_IssuanceFitsBalance ==
  \A pool_account \in DOMAIN BondedPools, amount \in JoinAmounts :
    ok_to_join_with(Storage, pool_account, BondedPools[pool_account], amount) = "Ok" =>
      /\ BondedPools[pool_account].points * amount <= MaxBalance
      /\ BondedPools[pool_account].points
           + points_to_issue(Bonded(pool_account), BondedPools[pool_account].points, amount)
           <= MaxBalance

\* the amounts a create is tried with
CreateAmounts == (0..(MaxAmount + 1)) \cup {LargeAmount}

\* the refusal of create(amount, index) by who, "Ok" when none of the checks
\* refuses it
CreateRefusal(who, amount, index) ==
  IF amount < Max(minimum_bond, MinCreateBond) THEN "MinimumBondNotMet"
  ELSE IF MaxPools # None /\ Cardinality(DOMAIN BondedPools) >= unwrap(MaxPools)
    THEN "MaxPools"
  ELSE IF who \in DOMAIN Delegators THEN "AccountBelongsToOtherPool"
  ELSE IF create_accounts(index).pool \in DOMAIN BondedPools THEN "IdInUse"
  ELSE "Ok"

\* C23: create is refused, with no state change, with MinimumBondNotMet when
\* amount < max(minimum_bond, MinCreateBond), MaxPools when MaxPools is set
\* and that many pools exist, AccountBelongsToOtherPool when the creator is a
\* delegator, and IdInUse when the derived pool account is a pool; the number
\* of bonded pools never exceeds MaxPools when it is set
C23_CreatePrecheck ==
  /\ MaxPools # None => Cardinality(DOMAIN BondedPools) <= unwrap(MaxPools)
  /\ \A who \in Accounts, amount \in CreateAmounts, index \in AllIndices,
        funded \in BOOLEAN, staking_ok \in BOOLEAN :
       LET created == create(Storage, who, amount, index, "a1", "a3", "a2",
                             funded, staking_ok)
       IN IF CreateRefusal(who, amount, index) # "Ok"
            THEN created = Err(Storage, CreateRefusal(who, amount, index))
          ELSE /\ created.res \notin {"MinimumBondNotMet", "MaxPools",
                                      "AccountBelongsToOtherPool", "IdInUse"}
               /\ (funded /\ staking_ok) => created.res = "Ok"

\* C23 witness: MaxPools is 1 and MinCreateBond is set, one pool exists, and
\* a create by an account without a record is refused for its amount, and
\* with a sufficient amount for the number of pools
C23_Witness ==
  \E who \in Accounts \ DOMAIN Delegators :
    /\ MaxPools = Some(1)
    /\ MinCreateBond > minimum_bond
    /\ Cardinality(DOMAIN BondedPools) = 1
    /\ create(Storage, who, minimum_bond, 1, "a1", "a3", "a2", TRUE, TRUE).res
         = "MinimumBondNotMet"
    /\ create(Storage, who, MinCreateBond, 1, "a1", "a3", "a2", TRUE, TRUE).res
         = "MaxPools"

\* the validator lists a nominate is tried with
ValidatorLists == {<<>>, <<"v1">>}

\* C24: nominate forwards the validator list to the staking engine only for
\* the pool's root or nominator; any other caller gets NotNominator, a missing
\* pool gets PoolNotFound, and in both cases no staking call is made; nominate
\* never changes a pool, delegator, reward-pool or sub-pool record
C24_NominatePermission ==
  \A who \in Accounts, pool_account \in PoolAccounts, validators \in ValidatorLists,
     staking_ok \in BOOLEAN :
    LET r == nominate(Storage, who, pool_account, validators, staking_ok)
    IN /\ r.st.BondedPools = BondedPools
       /\ r.st.Delegators = Delegators
       /\ r.st.RewardPools = RewardPools
       /\ r.st.SubPoolsStorage = SubPoolsStorage
       /\ IF pool_account \notin DOMAIN BondedPools
            THEN r = Err(Storage, "PoolNotFound")
          ELSE IF who \notin {BondedPools[pool_account].root,
                              BondedPools[pool_account].nominator}
            THEN r = Err(Storage, "NotNominator")
          ELSE IF staking_ok
            THEN /\ r.res = "Ok"
                 /\ r.st = [Storage EXCEPT !.Ledger[pool_account].nominations = validators]
          ELSE r = Err(Storage, "StakingError")

\* C24 witness: a pool that has nominated, whose depositor and state-toggler
\* are neither root nor nominator and are refused
C24_Witness ==
  \E pool_account \in DOMAIN BondedPools :
    /\ Ledger[pool_account].nominations = <<"v1">>
    /\ BondedPools[pool_account].root # BondedPools[pool_account].nominator
    /\ \A who \in {BondedPools[pool_account].depositor,
                   BondedPools[pool_account].state_toggler} :
         /\ who \notin {BondedPools[pool_account].root, BondedPools[pool_account].nominator}
         /\ nominate(Storage, who, pool_account, <<>>, TRUE).res = "NotNominator"

\* the amounts a total slash is tried with
TotalSlashes == 1..(LargeAmount + MaxAmount)

\* the delegators of pool_account whose points are in a with_era sub-pool of
\* (slash_era, apply_era]
AffectedDelegators(pool_account, slash_era, apply_era) ==
  {d \in UnbondingDelegators(pool_account) :
     unwrap(Delegators[d].unbonding_era) \in AffectedEras(pool_account, slash_era, apply_era)}

\* slash_pool of pool_account leaves nothing: it returns slashed_bonded = 0,
\* every with_era balance of (slash_era, CurrentEra] is 0, and a delegator of
\* one of these sub-pools who withdraws when bonding_duration has passed
\* redeems 0
SlashLeavesNothing(pool_account, slash_amount, slash_era) ==
  LET r == slash_pool(Storage, pool_account, slash_amount, slash_era)
      later == [r.st EXCEPT !.CurrentEra = @ + bonding_duration]
  IN /\ is_some(r.out)
     /\ unwrap(r.out).slashed_bonded = 0
     /\ \A e \in AffectedEras(pool_account, slash_era, CurrentEra) :
          /\ unwrap(r.out).slashed_unlocking[e] = 0
          /\ SubPoolsOf(r.st, pool_account).with_era[e].balance = 0
     /\ \A d \in AffectedDelegators(pool_account, slash_era, CurrentEra) :
          /\ withdraw_from_sub_pools(SubPoolsOf(later, pool_account),
                                     unwrap(Delegators[d].unbonding_era),
                                     Delegators[d].points).amount = 0
          /\ LET w == withdraw_unbonded_other(later, d, d, TRUE)
             IN w.res = "Ok" => w.ev[1].amount = 0

\* no product of slash_amount with a balance the slash affects exceeds the
\* maximum of the balance type
SlashProductsFit(pool_account, slash_amount, slash_era) ==
  /\ slash_amount * Ledger[pool_account].active <= MaxBalance
  /\ \A e \in AffectedEras(pool_account, slash_era, CurrentEra) :
       slash_amount * SubPoolsOf(Storage, pool_account).with_era[e].balance <= MaxBalance

NotPools == PoolAccounts \ DOMAIN BondedPools

\* C26: slash_pool called with a pool_stash that is not a key of the
\* bonded-pool map returns None and writes nothing, whatever the amount, the
\* eras and the active balance given: storage, and the sub-pools record of
\* that account in it, are as before
C26_SlashOfNonPool ==
  \A pool_stash \in NotPools, slash_amount \in 0..LargeSlash, slash_era \in Eras :
    /\ \A apply_era \in Eras, active_bonded \in {0, 1, MaxAmount} :
         LET r == do_slash(Storage, pool_stash, slash_amount, slash_era, apply_era,
                           active_bonded)
         IN /\ is_none(r.out)
            /\ r.st = Storage
            /\ get(r.st.SubPoolsStorage, pool_stash) = get(SubPoolsStorage, pool_stash)
    /\ LET r == slash_pool(Storage, pool_stash, slash_amount, slash_era)
       IN is_none(r.out) /\ r.st = Storage

\* C26 witness: a pool was created and reaped, its stash is known to the
\* staking engine and is no pool any more; a slash of it returns None
C26_Witness ==
  \E pool_stash \in NotPools :
    /\ pool_stash \in DOMAIN Ledger
    /\ is_none(slash_pool(Storage, pool_stash, 1, 0).out)

(***************************************************************************)
(* Sub-pools without points                                                *)
(***************************************************************************)
\* a sub-pool without points holds no balance
NoBalanceWithoutPoints(pool) == pool.points = 0 => pool.balance = 0

\* C27: in every reachable state every sub-pool, no_era and each with_era
\* entry, with points = 0 has balance = 0, and no with_era entry with
\* points = 0 is stored, neither after a withdraw that brings an entry's
\* points to zero nor after an unbond_other that redeems nothing
C27_NoZeroPointSubPool ==
  \A pool_account \in DOMAIN SubPoolsStorage :
    LET sub_pools == SubPoolsStorage[pool_account]
    IN /\ NoBalanceWithoutPoints(sub_pools.no_era)
       /\ \A era \in DOMAIN sub_pools.with_era :
            /\ NoBalanceWithoutPoints(sub_pools.with_era[era])
            /\ sub_pools.with_era[era].points > 0

(***************************************************************************)
(* What a withdraw pays                                                    *)
(***************************************************************************)
\* the balance the target's points redeem in its sub-pool, and the pool
\* account's free balance once the staking engine has released the unlocked
\* chunks
Redeemed(target) ==
  withdraw_from_sub_pools(SubPoolsStorage[Delegators[target].pool],
                          unwrap(Delegators[target].unbonding_era),
                          Delegators[target].points).amount

FreeAfterStakingWithdraw(target) ==
  free_balance(staking_withdraw_unbonded(Storage, Delegators[target].pool),
               Delegators[target].pool)

\* what the pool account holds after the call: what the transfer left, or
\* nothing when the pool was removed with its last delegator
PoolFreeBalance(st, pool_account, left) ==
  st.FreeBalance[pool_account] = IF contains_key(st.BondedPools, pool_account) THEN left ELSE 0

\* C28: every successful withdraw_unbonded_other(target) removes target's
\* delegator record and emits exactly one event, Withdrawn or DustWithdrawn:
\* if the pool account's free balance after the staking withdraw is at least
\* balance_to_unbond, exactly that amount leaves the pool account and
\* Withdrawn carries it; otherwise nothing leaves it and DustWithdrawn is
\* emitted
C28_WithdrawPaysOrDusts ==
  \A caller \in Accounts, target \in Accounts, staking_ok \in BOOLEAN :
    LET r == withdraw_unbonded_other(Storage, caller, target, staking_ok)
    IN r.res = "Ok" =>
         LET pool_account == Delegators[target].pool
         IN /\ ~contains_key(r.st.Delegators, target)
            /\ Len(r.ev) = 1
            /\ r.ev[1].delegator = target /\ r.ev[1].pool = pool_account
            /\ IF FreeAfterStakingWithdraw(target) >= Redeemed(target)
                 THEN /\ r.ev[1].event = "Withdrawn"
                      /\ r.ev[1].amount = Redeemed(target)
                      /\ PoolFreeBalance(r.st, pool_account,
                           FreeAfterStakingWithdraw(target) - Redeemed(target))
                 ELSE /\ r.ev[1].event = "DustWithdrawn"
                      /\ PoolFreeBalance(r.st, pool_account, FreeAfterStakingWithdraw(target))

\* C28 witness: one delegator's withdraw succeeds with a transfer of a
\* positive amount and leaves the pool in place, and another's succeeds with
\* DustWithdrawn because the pool account holds less than its points redeem
C28_Witness ==
  \E paid \in Accounts, dusted \in Accounts :
    LET p == withdraw_unbonded_other(Storage, paid, paid, TRUE)
        d == withdraw_unbonded_other(Storage, dusted, dusted, TRUE)
    IN /\ p.res = "Ok" /\ p.ev[1].event = "Withdrawn" /\ p.ev[1].amount > 0
       /\ contains_key(p.st.BondedPools, Delegators[paid].pool)
       /\ d.res = "Ok" /\ d.ev[1].event = "DustWithdrawn"
       /\ FreeAfterStakingWithdraw(dusted) < Redeemed(dusted)

(***************************************************************************)
(* The ledger a delegator's points are counted in                          *)
(***************************************************************************)
\* the points of the records in a set of delegators
PointsOf(delegators) ==
  SumOver([d \in delegators |-> Delegators[d].points], delegators)

\* the unbonding delegators of pool_account that unbonded in era
UnbondedIn(pool_account, era) ==
  {d \in UnbondingDelegators(pool_account) : unwrap(Delegators[d].unbonding_era) = era}

\* C29: in every reachable state and for every pool, the points of no_era
\* and of all with_era entries together equal the points of the pool's
\* delegators whose unbonding_era is set, and with_era[e].points equals the
\* points of the delegators with unbonding_era = e, whatever the ratio of
\* points to balance at which they unbonded
C29_PointsInOneLedger ==
  \A pool_account \in DOMAIN BondedPools :
    LET sub_pools == SubPoolsOf(Storage, pool_account)
    IN /\ sub_pools.no_era.points
            + SumOver([era \in DOMAIN sub_pools.with_era |-> sub_pools.with_era[era].points],
                      DOMAIN sub_pools.with_era)
          = PointsOf(UnbondingDelegators(pool_account))
       /\ \A era \in DOMAIN sub_pools.with_era :
            sub_pools.with_era[era].points = PointsOf(UnbondedIn(pool_account, era))

(***************************************************************************)
(* Shares issued on entry                                                  *)
(***************************************************************************)
\* what a successful create leaves: an Open pool and a depositor record with
\* points = amount, an empty reward pool, and a stash without nominations
Created(st, who, amount, index) ==
  LET accounts == create_accounts(index)
  IN /\ contains_key(st.BondedPools, accounts.pool)
     /\ st.BondedPools[accounts.pool].state = Open
     /\ st.BondedPools[accounts.pool].points = amount
     /\ st.BondedPools[accounts.pool].depositor = who
     /\ st.Delegators[who] = [pool |-> accounts.pool, points |-> amount,
                              reward_pool_total_earnings |-> 0, unbonding_era |-> None]
     /\ st.RewardPools[accounts.pool] = [account |-> accounts.reward, balance |-> 0,
                                         total_earnings |-> 0, points |-> 0]
     /\ st.Ledger[accounts.pool].active = amount
     /\ st.Ledger[accounts.pool].nominations = <<>>

\* what a successful join leaves: the joiner holds the points issued for
\* amount at the pool's ratio before the join, and the pool holds them too
Joined(st, who, amount, pool_account) ==
  LET p == points_to_issue(unwrap_or(bonded_balance(Storage, pool_account), 0),
                           BondedPools[pool_account].points, amount)
  IN /\ st.Delegators[who].pool = pool_account
     /\ st.Delegators[who].points = p
     /\ is_none(st.Delegators[who].unbonding_era)
     /\ st.BondedPools[pool_account].points = BondedPools[pool_account].points + p

\* a pool created with 10 and joined with 5 holds 15 points, its joiner 5
CreateThenJoin(who, joiner, index) ==
  LET c == create(Storage, who, 10, index, who, who, who, TRUE, TRUE)
      j == join(c.st, joiner, 5, create_accounts(index).pool, TRUE, TRUE)
  IN (c.res = "Ok" /\ MinJoinBond <= 5 /\ joiner \notin DOMAIN c.st.Delegators)
       => /\ Created(c.st, who, 10, index)
          /\ j.res = "Ok"
          /\ j.st.BondedPools[create_accounts(index).pool].points = 15
          /\ j.st.Delegators[joiner].points = 5
          /\ j.st.Delegators[who].points = 10

\* C30: create with amount a yields an Open pool with points = a, a depositor
\* record with points = a, watermark 0 and no unbonding_era, and a reward
\* pool with balance, points and total_earnings 0, and nominates nobody; a
\* successful join with amount n issues p = points_to_issue(bonded balance
\* before the join, pool points before the join, n), records the joiner with
\* points = p and adds p to the pool's points; create 10 then join 5 gives
\* pool points 15 and joiner points 5
C30_SharesIssuedOnEntry ==
  /\ \A who \in Accounts, amount \in CreateAmounts, index \in AllIndices,
        root \in Roots, nominator \in Nominators, state_toggler \in StateTogglers :
       create(Storage, who, amount, index, root, nominator, state_toggler, TRUE, TRUE).res
           = "Ok"
         => Created(create(Storage, who, amount, index, root, nominator, state_toggler,
                           TRUE, TRUE).st,
                    who, amount, index)
  /\ \A who \in Accounts, amount \in JoinAmounts, pool_account \in PoolAccounts :
       join(Storage, who, amount, pool_account, TRUE, TRUE).res = "Ok"
         => Joined(join(Storage, who, amount, pool_account, TRUE, TRUE).st,
                   who, amount, pool_account)
  /\ \A who \in Accounts, joiner \in Accounts, index \in AllIndices :
       CreateThenJoin(who, joiner, index)

\* C30 witness: a pool whose points are not its bonded balance, because it
\* was slashed, is joined and issues points other than the amount, while a
\* pool on a free seed is created with 10 and joined with 5
C30_Witness ==
  /\ \E who \in Accounts, amount \in JoinAmounts, pool_account \in DOMAIN BondedPools :
       LET j == join(Storage, who, amount, pool_account, TRUE, TRUE)
       IN /\ j.res = "Ok"
          /\ Ledger[pool_account].active > 0
          /\ j.st.Delegators[who].points > amount
          /\ Joined(j.st, who, amount, pool_account)
  /\ \E who \in Accounts, joiner \in Accounts, index \in AllIndices :
       LET c == create(Storage, who, 10, index, who, who, who, TRUE, TRUE)
       IN /\ c.res = "Ok"
          /\ join(c.st, joiner, 5, create_accounts(index).pool, TRUE, TRUE).res = "Ok"
          /\ CreateThenJoin(who, joiner, index)

(***************************************************************************)
(* What an unbond moves                                                    *)
(***************************************************************************)
\* floor(current_balance * delegator_points / current_points), or 0 if one
\* of the three is 0, with the product capped at cap
ShareOfBalance(current_balance, current_points, delegator_points, cap) ==
  IF current_balance = 0 \/ current_points = 0 \/ delegator_points = 0 THEN 0
  ELSE Min(current_balance * delegator_points, cap) \div current_points

\* what C31 says of a successful unbond_other in storage st with result r,
\* with the product of balance_to_unbond capped at cap
UnbondAsSpecified(st, r, target, cap) ==
  LET pool_account == st.Delegators[target].pool
      p == st.Delegators[target].points
      B == st.Ledger[pool_account].active
      P == st.BondedPools[pool_account].points
      c == st.CurrentEra
      b == ShareOfBalance(B, P, p, cap)
      merged == maybe_merge_pools(SubPoolsOf(st, pool_account), c)
      before == IF contains_key(merged.with_era, c) THEN merged.with_era[c]
                ELSE UnbondPool_default
      after == r.st.SubPoolsStorage[pool_account].with_era[c]
  IN /\ r.ev[Len(r.ev)] = [event |-> "Unbonded", delegator |-> target,
                           pool |-> pool_account, amount |-> b]
     /\ r.st.Ledger[pool_account].active = B - b
     /\ locked(r.st, pool_account) = locked(st, pool_account)
     /\ r.st.BondedPools[pool_account].points = P - p
     /\ after.balance = before.balance + b
     /\ after.points = before.points + points_to_issue(before.balance, before.points, b)
     /\ r.st.Delegators[target].points = p
     /\ r.st.Delegators[target].unbonding_era = Some(c)

\* a pool bonded 100 for 100 points at era 7, of which a2 holds 25, at a
\* fifth of the amounts so that the products fit the scaled balance type:
\* bonded 20 for 20 points, of which a2 holds 5
Bonded20 ==
  [Storage EXCEPT
     !.Delegators = insert(insert(EmptyMap, "a1",
                        [pool |-> create_accounts(0).pool, points |-> 15,
                         reward_pool_total_earnings |-> 0, unbonding_era |-> None]), "a2",
                        [pool |-> create_accounts(0).pool, points |-> 5,
                         reward_pool_total_earnings |-> 0, unbonding_era |-> None]),
     !.BondedPools = insert(EmptyMap, create_accounts(0).pool,
                        [points |-> 20, depositor |-> "a1", root |-> "a1",
                         nominator |-> "a1", state_toggler |-> "a1", state |-> Open]),
     !.RewardPools = insert(EmptyMap, create_accounts(0).pool,
                        [account |-> create_accounts(0).reward, balance |-> 0,
                         total_earnings |-> 0, points |-> 0]),
     !.SubPoolsStorage = EmptyMap,
     !.Ledger = insert(EmptyMap, create_accounts(0).pool,
                        [active |-> 20, unlocking |-> EmptyMap, nominations |-> <<>>]),
     !.FreeBalance = [a \in PoolAccounts \cup RewardAccounts |->
                        IF a = create_accounts(0).pool THEN 20 ELSE 0],
     !.CurrentEra = 7]

\* the unbond of those points at era 7: with_era[7] receives as much balance
\* and as many points, and the pool keeps the other three quarters
UnbondQuarterAtEra7 ==
  LET r == unbond_other(Bonded20, "a2", "a2", TRUE)
  IN /\ r.res = "Ok"
     /\ r.st.SubPoolsStorage[create_accounts(0).pool].with_era[7]
          = [points |-> 5, balance |-> 5]
     /\ r.st.BondedPools[create_accounts(0).pool].points = 15
     /\ r.st.Ledger[create_accounts(0).pool].active = 15

\* C31: a successful unbond_other(target) at era c, for a target with points
\* p in a pool with bonded balance B and points P, computes
\* b = floor(B * p / P) (0 if any of B, P, p is 0), has the staking engine
\* unbond exactly b, lowers the pool's points to P - p, issues b into
\* with_era[c] and sets target.unbonding_era = c; bonded 100 for 100 points,
\* p = 25, era 7 gives with_era[7] = 25 balance, 25 points and pool points 75
C31_UnbondExact ==
  /\ \A caller \in Accounts, target \in Accounts :
       LET r == unbond_other(Storage, caller, target, TRUE)
       IN r.res = "Ok" => UnbondAsSpecified(Storage, r, target, NoCap)
  /\ UnbondQuarterAtEra7

\* C31 (amended): the same, where the product B * p saturates at the maximum
\* of the balance type before the division
C31_UnbondSaturating ==
  /\ \A caller \in Accounts, target \in Accounts :
       LET r == unbond_other(Storage, caller, target, TRUE)
       IN r.res = "Ok" => UnbondAsSpecified(Storage, r, target, MaxBalance)
  /\ UnbondQuarterAtEra7

\* C31 witness: a delegator whose unbond succeeds in a pool whose bonded
\* balance is not its points, with a product B * p beyond the maximum of the
\* balance type, so that less than floor(B * p / P) is unbonded
C31_Witness ==
  \E caller \in Accounts, target \in DOMAIN Delegators :
    LET r == unbond_other(Storage, caller, target, TRUE)
        B == Ledger[Delegators[target].pool].active
        P == BondedPools[Delegators[target].pool].points
        p == Delegators[target].points
    IN /\ contains_key(BondedPools, Delegators[target].pool)
       /\ r.res = "Ok"
       /\ B # P
       /\ B * p > MaxBalance
       /\ r.ev[Len(r.ev)].amount > 0
       /\ r.ev[Len(r.ev)].amount < ShareOfBalance(B, P, p, NoCap)
       /\ UnbondAsSpecified(Storage, r, target, MaxBalance)

(***************************************************************************)
(* The claim inside an unbond                                              *)
(***************************************************************************)
\* the payout of target computed in the storage before the unbond, where the
\* pool's points still include target's
PayoutBeforeUnbond(target) ==
  calculate_delegator_payout(Storage, BondedPools[Delegators[target].pool],
                             RewardPools[Delegators[target].pool], Delegators[target])

\* C32: unbond_other(target) claims target's rewards before it removes
\* target's points from the bonded pool: the payout, the reward pool record,
\* the reward account's balance and target's watermark after a successful
\* unbond_other are those after a claim_payout by target in the storage
\* before the unbond, computed with the pool's points including target's
C32_UnbondClaimsFirst ==
  \A caller \in Accounts, target \in Accounts, staking_ok \in BOOLEAN :
    LET u == unbond_other(Storage, caller, target, staking_ok)
        c == claim_payout(Storage, target)
        pool_account == Delegators[target].pool
    IN u.res = "Ok" =>
         /\ u.ev[1] = [event |-> "PaidOut", delegator |-> target, pool |-> pool_account,
                       amount |-> PayoutBeforeUnbond(target).payout]
         /\ u.st.RewardPools[pool_account] = PayoutBeforeUnbond(target).reward_pool
         /\ u.st.Delegators[target].reward_pool_total_earnings
              = PayoutBeforeUnbond(target).delegator.reward_pool_total_earnings
         /\ c.res = "Ok"
         /\ u.ev[1] = c.ev[1]
         /\ u.st.RewardPools = c.st.RewardPools
         /\ u.st.FreeBalance[RewardPools[pool_account].account]
              = c.st.FreeBalance[RewardPools[pool_account].account]
         /\ u.st.Delegators[target].reward_pool_total_earnings
              = c.st.Delegators[target].reward_pool_total_earnings

\* C32 witness: a delegator that shares a pool with another and has an
\* unclaimed reward unbonds and is paid a positive share of it
C32_Witness ==
  \E target \in DOMAIN Delegators :
    LET u == unbond_other(Storage, target, target, TRUE)
    IN /\ contains_key(BondedPools, Delegators[target].pool)
       /\ u.res = "Ok"
       /\ Delegators[target].points < BondedPools[Delegators[target].pool].points
       /\ u.ev[1].amount > 0
       /\ u.ev[1].amount < free_balance(Storage, RewardPools[Delegators[target].pool].account)
       /\ u.ev[1].amount = PayoutBeforeUnbond(target).payout

(***************************************************************************)
(* Merging sub-pools                                                       *)
(***************************************************************************)
\* the with_era entries that maybe_merge_pools folds into no_era at era
\* current_era: those of an era <= current_era - TotalUnbondingPools
Folded(sub_pools, current_era) ==
  {era \in DOMAIN sub_pools.with_era :
     current_era >= TotalUnbondingPools /\ era <= current_era - TotalUnbondingPools}

TotalPoints(sub_pools) ==
  sub_pools.no_era.points
    + SumOver([era \in DOMAIN sub_pools.with_era |-> sub_pools.with_era[era].points],
              DOMAIN sub_pools.with_era)

TotalBalance(sub_pools) ==
  sub_pools.no_era.balance
    + SumOver([era \in DOMAIN sub_pools.with_era |-> sub_pools.with_era[era].balance],
              DOMAIN sub_pools.with_era)

\* what C33 says of maybe_merge_pools(sub_pools, current_era)
MergeAsSpecified(sub_pools, current_era) ==
  LET merged == maybe_merge_pools(sub_pools, current_era)
      folded == Folded(sub_pools, current_era)
  IN /\ DOMAIN merged.with_era = (DOMAIN sub_pools.with_era) \ folded
     /\ \A era \in DOMAIN merged.with_era : merged.with_era[era] = sub_pools.with_era[era]
     /\ merged.no_era.points
          = sub_pools.no_era.points
              + SumOver([era \in folded |-> sub_pools.with_era[era].points], folded)
     /\ merged.no_era.balance
          = sub_pools.no_era.balance
              + SumOver([era \in folded |-> sub_pools.with_era[era].balance], folded)
     /\ TotalPoints(merged) = TotalPoints(sub_pools)
     /\ TotalBalance(merged) = TotalBalance(sub_pools)
     /\ current_era < TotalUnbondingPools => merged = sub_pools

\* entries for the eras 6, 8 and 10 merged TotalUnbondingPools + 7 eras after
\* era 0, so that era 7 is the newest era to fold: era 6 is folded into
\* no_era, 8 and 10 stay
MergeOf6And8And10 ==
  LET sub_pools == [no_era |-> UnbondPool_default,
                    with_era |-> [era \in {6, 8, 10} |-> [points |-> era, balance |-> era]]]
      merged == maybe_merge_pools(sub_pools, TotalUnbondingPools + 7)
  IN /\ merged.no_era = [points |-> 6, balance |-> 6]
     /\ DOMAIN merged.with_era = {8, 10}
     /\ merged.with_era[8] = sub_pools.with_era[8]
     /\ merged.with_era[10] = sub_pools.with_era[10]

\* C33: maybe_merge_pools(current_era) removes from with_era exactly the
\* entries with era <= current_era - W (none when current_era < W), adds
\* their points and balances to no_era, leaves every other with_era entry
\* unchanged, and conserves the total points and the total balance over
\* no_era and with_era; of entries 6, 8 and 10, W eras and 7 after era 0,
\* era 6 is folded into no_era and 8 and 10 stay
C33_MergeFoldsOldEras ==
  /\ \A pool_account \in DOMAIN SubPoolsStorage,
        current_era \in 0..(MergeEraMax + TotalUnbondingPools) :
       MergeAsSpecified(SubPoolsStorage[pool_account], current_era)
  /\ MergeOf6And8And10

\* C33 witness: a record of which maybe_merge_pools, at the current era,
\* folds one entry that holds points into a no_era that holds points and
\* keeps another
C33_Witness ==
  \E pool_account \in DOMAIN SubPoolsStorage :
    LET sub_pools == SubPoolsStorage[pool_account]
        folded == Folded(sub_pools, CurrentEra)
    IN /\ sub_pools.no_era.points > 0
       /\ \E era \in folded : sub_pools.with_era[era].points > 0
       /\ (DOMAIN sub_pools.with_era) \ folded # {}
       /\ maybe_merge_pools(sub_pools, CurrentEra).no_era.points > sub_pools.no_era.points
       /\ MergeAsSpecified(sub_pools, CurrentEra)

(***************************************************************************)
(* Points issued for new funds                                             *)
(***************************************************************************)
\* balances and points points_to_issue is tried on: small ones, ones whose
\* products pass the maximum of the balance type, and the maximum
IssueInputs == {0, 1, 2, 3, 5, 15, 16, 17, LargeAmount, MaxBalance \div 2, MaxBalance}

\* what C34 says points_to_issue returns
PointsAsSpecified(balance, points, new_funds) ==
  IF points = 0 THEN Min(new_funds * POINTS_TO_BALANCE_INIT_RATIO, MaxBalance)
  ELSE IF balance = 0 THEN Min(new_funds * points, MaxBalance)
  ELSE Min(points * new_funds, MaxBalance) \div balance

\* C34: points_to_issue(balance, points, new_funds) returns new_funds * 1
\* when points = 0, whatever the balance, new_funds * points when balance = 0
\* and points > 0, and floor(points * new_funds / balance) otherwise, the
\* products saturating at the maximum of the balance type; the bonded pool
\* and every unbonding sub-pool issue with this one function
C34_PointsToIssue ==
  /\ \A balance \in IssueInputs, points \in IssueInputs, new_funds \in IssueInputs :
       points_to_issue(balance, points, new_funds)
         = PointsAsSpecified(balance, points, new_funds)
  /\ \A pool_account \in DOMAIN BondedPools, new_funds \in IssueInputs :
       /\ BondedPool_points_to_issue(Storage, pool_account, BondedPools[pool_account],
                                     new_funds)
            = PointsAsSpecified(Ledger[pool_account].active,
                                BondedPools[pool_account].points, new_funds)
       /\ BondedPool_issue(Storage, pool_account, BondedPools[pool_account], new_funds).issued
            = PointsAsSpecified(Ledger[pool_account].active,
                                BondedPools[pool_account].points, new_funds)
  /\ \A pool_account \in DOMAIN SubPoolsStorage, new_funds \in IssueInputs :
       LET sub_pools == SubPoolsStorage[pool_account]
       IN \A pool \in {sub_pools.no_era}
                        \cup {sub_pools.with_era[era] : era \in DOMAIN sub_pools.with_era} :
            /\ UnbondPool_points_to_issue(pool, new_funds)
                 = PointsAsSpecified(pool.balance, pool.points, new_funds)
            /\ UnbondPool_issue(pool, new_funds).points
                 = Min(pool.points + PointsAsSpecified(pool.balance, pool.points, new_funds),
                       MaxBalance)

\* C34 witness: a bonded pool and a sub-pool of it, both slashed to a
\* balance below their points, for which new funds are issued at more points
\* than units
C34_Witness ==
  \E pool_account \in DOMAIN BondedPools :
    /\ Ledger[pool_account].active > 0
    /\ BondedPools[pool_account].points > Ledger[pool_account].active
    /\ BondedPool_points_to_issue(Storage, pool_account, BondedPools[pool_account], 2) > 2
    /\ \E era \in DOMAIN SubPoolsOf(Storage, pool_account).with_era :
         LET pool == SubPoolsOf(Storage, pool_account).with_era[era]
         IN /\ pool.balance < pool.points
            /\ UnbondPool_points_to_issue(pool, 2) > 2
            /\ UnbondPool_points_to_issue(pool, 2)
                 = PointsAsSpecified(pool.balance, pool.points, 2)

(***************************************************************************)
(* The sub-pool of an era outlives the bonding duration                    *)
(***************************************************************************)
\* the unbonding delegators of live pools that unbonded at most
\* bonding_duration eras ago
StillBonding ==
  {d \in DOMAIN Delegators :
     /\ is_some(Delegators[d].unbonding_era)
     /\ contains_key(BondedPools, Delegators[d].pool)
     /\ CurrentEra <= unwrap(Delegators[d].unbonding_era) + bonding_duration}

\* the sub-pool of the era d unbonded in is a with_era entry of sub_pools
InWithEra(sub_pools, d) ==
  contains_key(sub_pools.with_era, unwrap(Delegators[d].unbonding_era))

\* C35: with bonding_duration < W, the with_era entry of era e is not merged
\* into no_era by an unbond_other at an era <= e + bonding_duration: up to
\* that era it is a with_era entry, before and after any unbond_other and
\* for any slash_pool, and a delegator that unbonded at e and withdraws at
\* era e + bonding_duration redeems from with_era[e], not from no_era
C35_SubPoolOutlivesBonding ==
  /\ bonding_duration < TotalUnbondingPools
  /\ \A d \in StillBonding :
       /\ InWithEra(SubPoolsOf(Storage, Delegators[d].pool), d)
       /\ \A caller \in Accounts, target \in Accounts :
            LET u == unbond_other(Storage, caller, target, TRUE)
            IN u.res = "Ok" => InWithEra(SubPoolsOf(u.st, Delegators[d].pool), d)
       /\ \A slash_amount \in SlashAmounts, slash_era \in Eras :
            InWithEra(SubPoolsOf(slash_pool(Storage, Delegators[d].pool, slash_amount,
                                            slash_era).st,
                                 Delegators[d].pool), d)

(***************************************************************************)
(* A withdraw within the sub-pool's means                                  *)
(***************************************************************************)
\* the sub-pool withdraw_unbonded_other redeems target's points from:
\* with_era[unbonding_era], or no_era when there is no such entry
ChosenSubPool(target) ==
  LET sub_pools == SubPoolsStorage[Delegators[target].pool]
      unbonding_era == unwrap(Delegators[target].unbonding_era)
  IN IF contains_key(sub_pools.with_era, unbonding_era)
       THEN sub_pools.with_era[unbonding_era] ELSE sub_pools.no_era

\* C36: in every withdraw_unbonded_other that succeeds, the balance computed
\* for the delegator does not exceed the balance the chosen sub-pool holds
\* before the call, and the sub-pool's points before the call are at least
\* the delegator's points, so that neither saturating subtraction clamps
C36_WithdrawWithinSubPool ==
  \A caller \in Accounts, target \in Accounts :
    withdraw_unbonded_other(Storage, caller, target, TRUE).res = "Ok"
      => /\ Redeemed(target) <= ChosenSubPool(target).balance
         /\ Delegators[target].points <= ChosenSubPool(target).points

(***************************************************************************)
(* A claim within the reward pool's means                                  *)
(***************************************************************************)
\* the bonded delegators whose pool and reward pool are stored
Claimants ==
  {who \in DOMAIN Delegators :
     /\ is_none(Delegators[who].unbonding_era)
     /\ contains_key(BondedPools, Delegators[who].pool)
     /\ contains_key(RewardPools, Delegators[who].pool)}

\* the reward pool of who's pool with the balance of its account observed
ObservedRewardPool(who) ==
  update_total_earnings_and_balance(Storage, RewardPools[Delegators[who].pool])

\* current_points and delegator_virtual_points of a claim by who, without
\* saturation
CurrentPoints(who) ==
  RewardPools[Delegators[who].pool].points
    + BondedPools[Delegators[who].pool].points
        * (ObservedRewardPool(who).total_earnings
             - RewardPools[Delegators[who].pool].total_earnings)

VirtualPoints(who) ==
  Delegators[who].points
    * (ObservedRewardPool(who).total_earnings - Delegators[who].reward_pool_total_earnings)

\* C37: in every claim, by claim_payout or inside unbond_other, reached
\* through create, join, claim and unbond with rewards only added to the
\* reward account, delegator_virtual_points <= current_points, the payout is
\* at most the reward account's free balance, the transfer does not fail for
\* lack of funds, and neither current_points - delegator_virtual_points nor
\* balance - payout clamps at zero
C37_ClaimWithinRewardPool ==
  \A who \in Claimants :
    LET c == calculate_delegator_payout(Storage, BondedPools[Delegators[who].pool],
                                        RewardPools[Delegators[who].pool], Delegators[who])
        account == RewardPools[Delegators[who].pool].account
    IN /\ c.res = "Ok"
       /\ 0 <= VirtualPoints(who)
       /\ VirtualPoints(who) <= CurrentPoints(who)
       /\ CurrentPoints(who) <= MaxRewardPoints
       /\ c.payout <= free_balance(Storage, account)
       /\ c.payout <= ObservedRewardPool(who).balance
       /\ c.reward_pool.points = CurrentPoints(who) - VirtualPoints(who)
       /\ c.reward_pool.balance = ObservedRewardPool(who).balance - c.payout
       /\ claim_payout(Storage, who).res = "Ok"
       /\ unbond_other(Storage, who, who, TRUE).res # "InsufficientBalance"

\* C37 witness: two bonded delegators of a pool of which one joined after a
\* reward arrived; the other's claim takes a positive payout and part of the
\* reward pool's points
C37_Witness ==
  \E who \in Claimants, joiner \in Claimants :
    /\ Delegators[who].pool = Delegators[joiner].pool
    /\ Delegators[who].reward_pool_total_earnings < Delegators[joiner].reward_pool_total_earnings
    /\ Delegators[joiner].points > 0
    /\ 0 < VirtualPoints(who)
    /\ VirtualPoints(who) < CurrentPoints(who)
    /\ claim_payout(Storage, who).res = "Ok"
    /\ claim_payout(Storage, who).ev[1].amount > 0

(***************************************************************************)
(* A join and the rewards that arrived before it                           *)
(***************************************************************************)
\* the pools with a reward in the reward account that no claim has observed
UnobservedReward ==
  {pool_account \in DOMAIN RewardPools :
     /\ contains_key(BondedPools, pool_account)
     /\ free_balance(Storage, RewardPools[pool_account].account)
          > RewardPools[pool_account].balance}

\* the payouts to the claimants of pool_account, claiming in order from st,
\* and the storage after them
RECURSIVE ClaimsInOrder(_, _)
ClaimsInOrder(st, order) ==
  IF order = <<>> THEN [st |-> st, paid |-> <<>>]
  ELSE LET c == claim_payout(st, Head(order))
           rest == ClaimsInOrder(c.st, Tail(order))
       IN [st |-> rest.st,
           paid |-> <<IF c.res = "Ok" THEN c.ev[1].amount ELSE 0>> \o rest.paid]

\* the bonded delegators of pool_account, in the orders they may claim in
ClaimOrders(pool_account) ==
  {order \in UNION {[1..n -> BondedDelegators(pool_account)] : n \in 0..Cardinality(Accounts)} :
     /\ Len(order) = Cardinality(BondedDelegators(pool_account))
     /\ \A i, j \in 1..Len(order) : order[i] = order[j] => i = j}

\* C38: a join does not change what the delegators already bonded are paid
\* for a reward that arrived before it: with a reward in the reward account
\* that no claim has observed, the payouts of the bonded delegators, in any
\* order of claiming, are the same after a join as without it, and once they
\* have all claimed the reward account holds as much as without the join
C38_JoinKeepsEarlierRewards ==
  \A pool_account \in UnobservedReward, joiner \in Accounts, amount \in 1..MaxAmount :
    LET j == join(Storage, joiner, amount, pool_account, TRUE, TRUE)
    IN j.res = "Ok" =>
         \A order \in ClaimOrders(pool_account) :
           /\ ClaimsInOrder(j.st, order).paid = ClaimsInOrder(Storage, order).paid
           /\ free_balance(ClaimsInOrder(j.st, order).st, RewardPools[pool_account].account)
                = free_balance(ClaimsInOrder(Storage, order).st,
                               RewardPools[pool_account].account)

(***************************************************************************)
(* Teardown after slashes                                                  *)
(***************************************************************************)
\* the eras the depositor may wait before it withdraws: long enough for any
\* sub-pool to pass the window of TotalUnbondingPools
TeardownWaits == 0..(TotalUnbondingPools + 1)

\* who withdraws from st after wait eras and the pool is destroyed
WithdrawDestroys(st, pool_account, who, wait) ==
  LET w == withdraw_unbonded_other([st EXCEPT !.CurrentEra = @ + wait], who, who, TRUE)
  IN /\ w.res = "Ok"
     /\ ~contains_key(w.st.BondedPools, pool_account)
     /\ ~contains_key(w.st.Delegators, who)

\* C39: in a Destroying pool whose only remaining delegator is the
\* depositor, whatever slashes and withdrawals came before, the depositor's
\* unbond_other succeeds, and at some era from bonding_duration eras after
\* the unbond on its withdraw_unbonded_other succeeds and destroys the pool:
\* the sole-holder check does not block the depositor for ever
C39_TeardownAfterSlashes ==
  \A pool_account \in DOMAIN BondedPools :
    LET who == BondedPools[pool_account].depositor
        unbonded == unbond_other(Storage, who, who, TRUE)
    IN ReadyForTeardown(pool_account) =>
         IF is_none(Delegators[who].unbonding_era)
           THEN /\ unbonded.res = "Ok"
                /\ \E wait \in TeardownWaits :
                     WithdrawDestroys(unbonded.st, pool_account, who, bonding_duration + wait)
         ELSE \E wait \in TeardownWaits :
                WithdrawDestroys(Storage, pool_account, who, bonding_duration + wait)

(***************************************************************************)
(* A delegator can leave                                                   *)
(***************************************************************************)
\* the delegators that are not the depositor of their pool
NonDepositors ==
  {d \in DOMAIN Delegators :
     contains_key(BondedPools, Delegators[d].pool)
       => BondedPools[Delegators[d].pool].depositor # d}

\* C40: every delegator that is not the depositor can leave, whatever the
\* state of its pool and whatever slashes and withdrawals by others came
\* before: while it is bonded its own unbond_other succeeds, and from era
\* unbonding_era + bonding_duration on its own withdraw_unbonded_other
\* succeeds and removes its record, the staking calls succeeding
C40_DelegatorCanLeave ==
  \A d \in NonDepositors :
    IF is_none(Delegators[d].unbonding_era)
      THEN unbond_other(Storage, d, d, TRUE).res = "Ok"
    ELSE CurrentEra >= unwrap(Delegators[d].unbonding_era) + bonding_duration
           => /\ withdraw_unbonded_other(Storage, d, d, TRUE).res = "Ok"
              /\ ~contains_key(withdraw_unbonded_other(Storage, d, d, TRUE).st.Delegators, d)

====
